---- MODULE Spec2Model ----
(***************************************************************************)
(* Repoduce-Me: dependency extraction (requirements_extract.py) and        *)
(* environment provisioning (venv_create.py).                              *)
(*                                                                         *)
(* Text is modelled as Python models it: a str is a sequence of code       *)
(* points, a text file is the sequence of its lines.                       *)
(***************************************************************************)
EXTENDS Integers, Sequences, FiniteSets, TLC

(***************************************************************************)
(* Bounds of the model.                                                    *)
(***************************************************************************)
\* largest number of distinct modules imported by a scanned repository
MaxDeps == 2
\* largest number of successive create_and_install_venv calls
MaxCalls == 2
\* largest number of successive analyze_repo calls
MaxScans == 2
\* largest number of files of a scanned tree in the scans of arbitrary trees
MaxFiles == 2
\* largest number of lines of a manifest handed to filter_requirements alone
MaxLines == 2
\* number of create_and_install_venv runs started on one working root
MaxRuns == 2

\* largest Downloader.max_retries considered
MaxRetries == 2

\* largest number of paper URLs the batch runner is given
MaxUrls == 2

(***************************************************************************)
(* requirements_extract.py: the tables of RequirementsExtractor.           *)
(***************************************************************************)
STANDARD_LIBRARY ==
    {
      "__future__", "__main__", "abc", "argparse", "array", "asyncio",
      "base64", "builtins", "csv", "collections", "copy", "ctypes",
      "datetime", "decimal", "json", "math", "os", "pathlib", "re",
      "shutil", "sys", "subprocess", "time", "typing", "warnings",
      "threading", "tempfile", "unittest", "xml", "zipfile", "itertools",
      "functools", "logging", "io", "random", "hashlib", "queue", "socket",
      "http", "ssl", "uuid", "operator", "pickle", "configparser"
    }

MappedModules ==
    {
      "yaml", "PIL", "cv2", "skimage", "scipy", "matplotlib", "numpy",
      "torch", "tensorflow", "pandas", "flask", "django", "requests",
      "bs4", "lxml", "tqdm", "seaborn", "sklearn", "six", "cffi"
    }

MODULE_TO_PACKAGE ==
    [dep \in MappedModules |->
        CASE dep = "yaml" -> "pyyaml"
          [] dep = "PIL" -> "Pillow"
          [] dep = "cv2" -> "opencv-python"
          [] dep = "skimage" -> "scikit-image"
          [] dep = "bs4" -> "beautifulsoup4"
          [] dep = "sklearn" -> "scikit-learn"
          [] OTHER -> dep]

DEBUG_BLACKLIST ==
    {
      "enum", "enum34", "pkg_resources", "setuptools", "distutils",
      "astropilot", "concurrent", "contextlib"
    }

\* module names that match neither table (identity-mapped, external)
OtherModules == {"ast", "Pillow", "Cython", "zmq", "_pytest"}

\* every module name a scanned import line can contribute in this model
Modules == STANDARD_LIBRARY \cup DEBUG_BLACKLIST \cup MappedModules \cup OtherModules

Packages == {MODULE_TO_PACKAGE[m] : m \in MappedModules}

\* the code points of each str the model uses (Python compares, sorts and
\* writes str by code point)
CodePoints ==
    [s \in Modules \cup Packages |->
        CASE s = "__future__" -> <<95, 95, 102, 117, 116, 117, 114, 101, 95, 95>>
          [] s = "__main__" -> <<95, 95, 109, 97, 105, 110, 95, 95>>
          [] s = "abc" -> <<97, 98, 99>>
          [] s = "argparse" -> <<97, 114, 103, 112, 97, 114, 115, 101>>
          [] s = "array" -> <<97, 114, 114, 97, 121>>
          [] s = "asyncio" -> <<97, 115, 121, 110, 99, 105, 111>>
          [] s = "base64" -> <<98, 97, 115, 101, 54, 52>>
          [] s = "builtins" -> <<98, 117, 105, 108, 116, 105, 110, 115>>
          [] s = "csv" -> <<99, 115, 118>>
          [] s = "collections" -> <<99, 111, 108, 108, 101, 99, 116, 105, 111, 110, 115>>
          [] s = "copy" -> <<99, 111, 112, 121>>
          [] s = "ctypes" -> <<99, 116, 121, 112, 101, 115>>
          [] s = "datetime" -> <<100, 97, 116, 101, 116, 105, 109, 101>>
          [] s = "decimal" -> <<100, 101, 99, 105, 109, 97, 108>>
          [] s = "json" -> <<106, 115, 111, 110>>
          [] s = "math" -> <<109, 97, 116, 104>>
          [] s = "os" -> <<111, 115>>
          [] s = "pathlib" -> <<112, 97, 116, 104, 108, 105, 98>>
          [] s = "re" -> <<114, 101>>
          [] s = "shutil" -> <<115, 104, 117, 116, 105, 108>>
          [] s = "sys" -> <<115, 121, 115>>
          [] s = "subprocess" -> <<115, 117, 98, 112, 114, 111, 99, 101, 115, 115>>
          [] s = "time" -> <<116, 105, 109, 101>>
          [] s = "typing" -> <<116, 121, 112, 105, 110, 103>>
          [] s = "warnings" -> <<119, 97, 114, 110, 105, 110, 103, 115>>
          [] s = "threading" -> <<116, 104, 114, 101, 97, 100, 105, 110, 103>>
          [] s = "tempfile" -> <<116, 101, 109, 112, 102, 105, 108, 101>>
          [] s = "unittest" -> <<117, 110, 105, 116, 116, 101, 115, 116>>
          [] s = "xml" -> <<120, 109, 108>>
          [] s = "zipfile" -> <<122, 105, 112, 102, 105, 108, 101>>
          [] s = "itertools" -> <<105, 116, 101, 114, 116, 111, 111, 108, 115>>
          [] s = "functools" -> <<102, 117, 110, 99, 116, 111, 111, 108, 115>>
          [] s = "logging" -> <<108, 111, 103, 103, 105, 110, 103>>
          [] s = "io" -> <<105, 111>>
          [] s = "random" -> <<114, 97, 110, 100, 111, 109>>
          [] s = "hashlib" -> <<104, 97, 115, 104, 108, 105, 98>>
          [] s = "queue" -> <<113, 117, 101, 117, 101>>
          [] s = "socket" -> <<115, 111, 99, 107, 101, 116>>
          [] s = "http" -> <<104, 116, 116, 112>>
          [] s = "ssl" -> <<115, 115, 108>>
          [] s = "uuid" -> <<117, 117, 105, 100>>
          [] s = "operator" -> <<111, 112, 101, 114, 97, 116, 111, 114>>
          [] s = "pickle" -> <<112, 105, 99, 107, 108, 101>>
          [] s = "configparser" -> <<99, 111, 110, 102, 105, 103, 112, 97, 114, 115, 101, 114>>
          [] s = "enum" -> <<101, 110, 117, 109>>
          [] s = "enum34" -> <<101, 110, 117, 109, 51, 52>>
          [] s = "pkg_resources" -> <<112, 107, 103, 95, 114, 101, 115, 111, 117, 114, 99, 101, 115>>
          [] s = "setuptools" -> <<115, 101, 116, 117, 112, 116, 111, 111, 108, 115>>
          [] s = "distutils" -> <<100, 105, 115, 116, 117, 116, 105, 108, 115>>
          [] s = "astropilot" -> <<97, 115, 116, 114, 111, 112, 105, 108, 111, 116>>
          [] s = "concurrent" -> <<99, 111, 110, 99, 117, 114, 114, 101, 110, 116>>
          [] s = "contextlib" -> <<99, 111, 110, 116, 101, 120, 116, 108, 105, 98>>
          [] s = "yaml" -> <<121, 97, 109, 108>>
          [] s = "PIL" -> <<80, 73, 76>>
          [] s = "cv2" -> <<99, 118, 50>>
          [] s = "skimage" -> <<115, 107, 105, 109, 97, 103, 101>>
          [] s = "scipy" -> <<115, 99, 105, 112, 121>>
          [] s = "matplotlib" -> <<109, 97, 116, 112, 108, 111, 116, 108, 105, 98>>
          [] s = "numpy" -> <<110, 117, 109, 112, 121>>
          [] s = "torch" -> <<116, 111, 114, 99, 104>>
          [] s = "tensorflow" -> <<116, 101, 110, 115, 111, 114, 102, 108, 111, 119>>
          [] s = "pandas" -> <<112, 97, 110, 100, 97, 115>>
          [] s = "flask" -> <<102, 108, 97, 115, 107>>
          [] s = "django" -> <<100, 106, 97, 110, 103, 111>>
          [] s = "requests" -> <<114, 101, 113, 117, 101, 115, 116, 115>>
          [] s = "bs4" -> <<98, 115, 52>>
          [] s = "lxml" -> <<108, 120, 109, 108>>
          [] s = "tqdm" -> <<116, 113, 100, 109>>
          [] s = "seaborn" -> <<115, 101, 97, 98, 111, 114, 110>>
          [] s = "sklearn" -> <<115, 107, 108, 101, 97, 114, 110>>
          [] s = "six" -> <<115, 105, 120>>
          [] s = "cffi" -> <<99, 102, 102, 105>>
          [] s = "pyyaml" -> <<112, 121, 121, 97, 109, 108>>
          [] s = "Pillow" -> <<80, 105, 108, 108, 111, 119>>
          [] s = "opencv-python" -> <<111, 112, 101, 110, 99, 118, 45, 112, 121, 116, 104, 111, 110>>
          [] s = "scikit-image" -> <<115, 99, 105, 107, 105, 116, 45, 105, 109, 97, 103, 101>>
          [] s = "beautifulsoup4" -> <<98, 101, 97, 117, 116, 105, 102, 117, 108, 115, 111, 117, 112, 52>>
          [] s = "scikit-learn" -> <<115, 99, 105, 107, 105, 116, 45, 108, 101, 97, 114, 110>>
          [] s = "ast" -> <<97, 115, 116>>
          [] s = "Cython" -> <<67, 121, 116, 104, 111, 110>>
          [] s = "zmq" -> <<122, 109, 113>>
          [] s = "_pytest" -> <<95, 112, 121, 116, 101, 115, 116>>]

(***************************************************************************)
(* Python str and list primitives used by the code.                        *)
(***************************************************************************)
RECURSIVE SeqLess(_, _)
\* Python's < on str: code-point lexicographic, a proper prefix is smaller
SeqLess(a, b) ==
    IF a = <<>> THEN b # <<>>
    ELSE IF b = <<>> THEN FALSE
    ELSE IF Head(a) # Head(b) THEN Head(a) < Head(b)
    ELSE SeqLess(Tail(a), Tail(b))

StrLess(a, b) == SeqLess(CodePoints[a], CodePoints[b])

RECURSIVE sorted_reverse(_)
\* sorted(..., reverse=True): descending
sorted_reverse(S) ==
    IF S = {} THEN <<>>
    ELSE LET greatest == CHOOSE x \in S : \A y \in S \ {x} : StrLess(y, x)
         IN  <<greatest>> \o sorted_reverse(S \ {greatest})

RECURSIVE sorted(_)
\* sorted(list(package_names)): ascending by StrLess
sorted(S) ==
    IF S = {} THEN <<>>
    ELSE LET least == CHOOSE x \in S : \A y \in S \ {x} : StrLess(x, y)
         IN  <<least>> \o sorted(S \ {least})

Range(seq) == {seq[i] : i \in 1..Len(seq)}

(***************************************************************************)
(* requirements_extract.py: Dependency Classifier.                         *)
(***************************************************************************)
\* the blacklist test left out
_is_external_stdlib_only(module_name) ==
    IF module_name \in STANDARD_LIBRARY THEN FALSE
    ELSE TRUE

_is_external(module_name) ==
    IF module_name \in STANDARD_LIBRARY THEN FALSE
    ELSE IF module_name \in DEBUG_BLACKLIST THEN FALSE
    ELSE TRUE

\* self.MODULE_TO_PACKAGE.get(dep, dep)
MapGet(dep) ==
    IF dep \in DOMAIN MODULE_TO_PACKAGE THEN MODULE_TO_PACKAGE[dep] ELSE dep

RECURSIVE CollectPackages(_, _)
\* the for loop of _map_to_package_names over the dependency set
CollectPackages(dependencies, package_names) ==
    IF dependencies = {} THEN package_names
    ELSE LET dep == CHOOSE d \in dependencies : TRUE
         IN  CollectPackages(dependencies \ {dep},
                IF ~_is_external(dep) THEN package_names
                ELSE package_names \cup {MapGet(dep)})

_map_to_package_names(dependencies) ==
    sorted(CollectPackages(dependencies, {}))

(***************************************************************************)
(* Files on disk: a text file is [exists, lines]; each line is a str.      *)
(***************************************************************************)
NoFile == [exists |-> FALSE, lines |-> <<>>]

TextFile(ls) == [exists |-> TRUE, lines |-> ls]

\* st_size == 0: a file without any line
IsEmptyFile(f) == f.exists /\ Len(f.lines) = 0

\* the lines _write_requirements_file writes: f"{dep}\n" for each dep
ManifestLines(dependencies) ==
    [i \in 1..Len(dependencies) |-> CodePoints[dependencies[i]]]

RECURSIVE SubsetsUpTo(_, _)
\* the subsets of S with at most n elements
SubsetsUpTo(S, n) ==
    IF n = 0 THEN {{}}
    ELSE LET P == SubsetsUpTo(S, n - 1)
         IN  P \cup {s \cup {m} : s \in P, m \in S}

(***************************************************************************)
(* venv_create.py: configuration and path helpers.                         *)
(***************************************************************************)
TMP_DIR == <<"tmp">>

VENV_DIR == TMP_DIR \o <<".venv_repro">>

REQUIREMENTS_FILE == TMP_DIR \o <<"requirements.txt">>

\* requirements_file.parent / "requirements_filtered.txt"
FilteredPath(requirements_file) ==
    SubSeq(requirements_file, 1, Len(requirements_file) - 1)
        \o <<"requirements_filtered.txt">>

\* sys.platform values of the hosts considered
Platforms ==
    { <<"l", "i", "n", "u", "x">>,
      <<"w", "i", "n", "3", "2">>,
      <<"d", "a", "r", "w", "i", "n">> }

\* str.startswith
StartsWith(s, prefix) ==
    Len(s) >= Len(prefix) /\ SubSeq(s, 1, Len(prefix)) = prefix

get_venv_python_executable(venv_path, sys_platform) ==
    IF StartsWith(sys_platform, <<"w", "i", "n">>)
    THEN venv_path \o <<"Scripts", "python.exe">>
    ELSE venv_path \o <<"bin", "python">>

(***************************************************************************)
(* venv_create.py: execute_subprocess.                                     *)
(***************************************************************************)
\* what subprocess.run(command, check=True, ...) can do
Exited(rc, err) == [kind |-> "exit", returncode |-> rc, stderr |-> err]

SubprocessOutcomes ==
    { Exited(0, "") }
    \cup { Exited(rc, "stderr text") : rc \in {1, 2} }
    \cup { [kind |-> "missing"], [kind |-> "oserror"] }

Succeeded(outcome) == outcome.kind = "exit" /\ outcome.returncode = 0

NonZeroExit(outcome) == outcome.kind = "exit" /\ outcome.returncode # 0

\* the exception subprocess.run raises for an outcome that is not exit 0
RunException(command, outcome) ==
    IF outcome.kind = "exit"
    THEN [kind |-> "CalledProcessError", cmd |-> command,
          returncode |-> outcome.returncode, stderr |-> outcome.stderr]
    ELSE IF outcome.kind = "missing"
    THEN [kind |-> "FileNotFoundError", filename |-> Head(command)]
    ELSE [kind |-> "PermissionError"]

NoError == [kind |-> "none"]

\* raise RuntimeError(f"{error_message} failed.") from e
RuntimeError(error_message, e) ==
    [kind |-> "RuntimeError", message |-> <<error_message, " failed.">>,
     cause |-> e]

\* check=False: a non-zero exit is returned, not raised
execute_subprocess_nocheck(command, error_message, outcome) ==
    IF outcome.kind = "exit"
    THEN [raised |-> FALSE, error |-> NoError]
    ELSE [raised |-> TRUE,
          error |-> RuntimeError(error_message, RunException(command, outcome))]

execute_subprocess(command, error_message, outcome) ==
    IF Succeeded(outcome)
    THEN [raised |-> FALSE, error |-> NoError]
    ELSE [raised |-> TRUE,
          error |-> RuntimeError(error_message, RunException(command, outcome))]

(***************************************************************************)
(* venv_create.py: filter_requirements.                                    *)
(***************************************************************************)
\* the code points str.strip() removes
Whitespace == {9, 10, 11, 12, 13, 28, 29, 30, 31, 32}

RECURSIVE lstrip(_)
lstrip(s) ==
    IF s # <<>> /\ Head(s) \in Whitespace THEN lstrip(Tail(s)) ELSE s

RECURSIVE rstrip(_)
rstrip(s) ==
    IF s # <<>> /\ s[Len(s)] \in Whitespace
    THEN rstrip(SubSeq(s, 1, Len(s) - 1)) ELSE s

strip(s) == rstrip(lstrip(s))

\* the characters of the class [=><~]
SpecifierChars == {61, 62, 60, 126}

RECURSIVE FirstSplitPart(_)
\* re.split(r'[=><~]', s)[0]: the text before the first separator
FirstSplitPart(s) ==
    IF s = <<>> \/ Head(s) \in SpecifierChars THEN <<>>
    ELSE <<Head(s)>> \o FirstSplitPart(Tail(s))

package_name(line) == strip(FirstSplitPart(strip(line)))

packages_to_skip == {CodePoints["ast"], CodePoints["enum34"]}

\* package_name.startswith('#')
IsComment(name) == name # <<>> /\ Head(name) = 35

RECURSIVE filtered_lines(_)
\* the loop of filter_requirements over the lines read
filtered_lines(lines) ==
    IF lines = <<>> THEN <<>>
    ELSE LET line == Head(lines)
             name == package_name(line)
             rest == filtered_lines(Tail(lines))
         IN  IF name = <<>> \/ IsComment(name) THEN rest
             ELSE IF name \notin packages_to_skip THEN <<line>> \o rest
             ELSE rest

\* outcomes of a file write: done, refused at open, or cut short after open
WriteOutcomes == {"ok", "open_fails", "write_fails"}

\* the filtered path is returned although writing it failed
filter_requirements_ignoring_write_error(requirements_file, manifest, sibling, readOk, writeOutcome) ==
    IF ~manifest.exists THEN [path |-> requirements_file, sibling |-> sibling]
    ELSE IF ~readOk THEN [path |-> requirements_file, sibling |-> sibling]
    ELSE LET kept == filtered_lines(manifest.lines)
         IN  IF writeOutcome = "ok" THEN [path |-> FilteredPath(requirements_file), sibling |-> TextFile(kept)]
             ELSE IF writeOutcome = "open_fails" THEN [path |-> FilteredPath(requirements_file), sibling |-> sibling]
             ELSE [path |-> FilteredPath(requirements_file), sibling |-> TextFile(<<>>)]

\* filter_requirements(requirements_file): the path returned and the sibling
\* file left on disk, given the manifest, the sibling before the call and the
\* outcome of the read and of the write
filter_requirements(requirements_file, manifest, sibling, readOk, writeOutcome) ==
    IF ~manifest.exists
    THEN [path |-> requirements_file, sibling |-> sibling]
    ELSE IF ~readOk
    THEN [path |-> requirements_file, sibling |-> sibling]
    ELSE LET kept == filtered_lines(manifest.lines)
         IN  IF writeOutcome = "ok"
             THEN [path |-> FilteredPath(requirements_file),
                   sibling |-> TextFile(kept)]
             ELSE IF writeOutcome = "open_fails"
             THEN [path |-> requirements_file, sibling |-> sibling]
             ELSE [path |-> requirements_file, sibling |-> TextFile(<<>>)]

(***************************************************************************)
(* requirements_extract.py: _extract_module_name.                          *)
(***************************************************************************)
\* None, and the falsy value of `if module_name:`
None == <<>>

\* the characters of the class [a-zA-Z0-9_]
WordChars == (48..57) \cup (65..90) \cup {95} \cup (97..122)

RECURSIVE TakeWhile(_, _)
\* the longest prefix of s made of characters of C (a greedy C*)
TakeWhile(s, C) ==
    IF s # <<>> /\ Head(s) \in C
    THEN <<Head(s)>> \o TakeWhile(Tail(s), C) ELSE <<>>

DropFirst(s, n) == SubSeq(s, n + 1, Len(s))

\* "import" and "from"
KwImport == <<105, 109, 112, 111, 114, 116>>

KwFrom == <<102, 114, 111, 109>>

\* the pattern \s*<keyword>\s+([a-zA-Z0-9_]+) tried at the start of s:
\* group 1, or None
MatchHere(keyword, s) ==
    LET a == DropFirst(s, Len(TakeWhile(s, Whitespace)))
    IN  IF ~StartsWith(a, keyword) THEN None
        ELSE LET b == DropFirst(a, Len(keyword))
                 ws == TakeWhile(b, Whitespace)
             IN  IF ws = <<>> THEN None
                 ELSE TakeWhile(DropFirst(b, Len(ws)), WordChars)

RECURSIVE re_match_unanchored(_, _)
\* the pattern without its ^, searched for along the line
re_match_unanchored(keyword, line) ==
    IF MatchHere(keyword, line) # None THEN MatchHere(keyword, line)
    ELSE IF line = <<>> THEN None
    ELSE re_match_unanchored(keyword, Tail(line))

\* re.match(r'^\s*<keyword>\s+([a-zA-Z0-9_]+)', line).group(1), or None
re_match(keyword, line) == MatchHere(keyword, line)

_extract_module_name(line) ==
    LET match_import == re_match(KwImport, line)
    IN  IF match_import # None THEN match_import
        ELSE re_match(KwFrom, line)

\* a line as the text before the keyword, the keyword, the gap after it, the
\* name and the rest of the line
LineText(parts) ==
    parts.prefix \o parts.keyword \o parts.sep \o parts.name \o parts.suffix

\* text before the keyword: '', '  ', '\t', '# ', 'x = 1; '
LinePrefixes ==
    { <<>>,
      <<32, 32>>,
      <<9>>,
      <<35, 32>>,
      <<120, 32, 61, 32, 49, 59, 32>> }

\* keywords: 'import', 'from', 'imports'
LineKeywords ==
    { <<105, 109, 112, 111, 114, 116>>,
      <<102, 114, 111, 109>>,
      <<105, 109, 112, 111, 114, 116, 115>> }

\* gap between keyword and name: '', ' ', ' \t'
LineSeparators ==
    { <<>>,
      <<32>>,
      <<32, 9>> }

\* names: 'os', 'numpy.linalg', '.', '.pkg', '..a.b', 'scratch', 'a_b2'
LineNames ==
    { <<111, 115>>,
      <<110, 117, 109, 112, 121, 46, 108, 105, 110, 97, 108, 103>>,
      <<46>>,
      <<46, 112, 107, 103>>,
      <<46, 46, 97, 46, 98>>,
      <<115, 99, 114, 97, 116, 99, 104>>,
      <<97, 95, 98, 50>> }

\* rest of the line: '', ' import x', ' as np', ', sys'
LineSuffixes ==
    { <<>>,
      <<32, 105, 109, 112, 111, 114, 116, 32, 120>>,
      <<32, 97, 115, 32, 110, 112>>,
      <<44, 32, 115, 121, 115>> }

SampleLines ==
    [prefix : LinePrefixes, keyword : LineKeywords, sep : LineSeparators,
     name : LineNames, suffix : LineSuffixes]

(***************************************************************************)
(* requirements_extract.py: the walk of analyze_repo and _analyze_file.    *)
(*                                                                         *)
(* A file is [dir, name, lines, read]: dir is the list of directory names  *)
(* from the scan root down to the file, name and lines are str, read says  *)
(* what reading it does: "utf8" (decodes), "latin1" (UTF-8 fails, Latin-1  *)
(* decodes), "latin1_error" (UTF-8 fails, the fallback raises) or "error"  *)
(* (the first read raises another exception).                              *)
(***************************************************************************)
\* TMP_DIR and VENV_DIR_NAME of requirements_extract.py
ExtractorTmpName == "tmp"

VENV_DIR_NAME == ".venv_repro"

Last(seq) == seq[Len(seq)]

EndsWith(s, suffix) ==
    Len(s) >= Len(suffix)
    /\ SubSeq(s, Len(s) - Len(suffix) + 1, Len(s)) = suffix

\* str.lower() on the ASCII letters
lower(s) == [i \in 1..Len(s) |-> IF s[i] \in 65..90 THEN s[i] + 32 ELSE s[i]]

\* ".py"
DotPy == <<46, 112, 121>>

\* 'setup.py', 'requirements.txt', 'test.py', 'conftest.py'
SkippedFileNames ==
    { <<115, 101, 116, 117, 112, 46, 112, 121>>,
      <<114, 101, 113, 117, 105, 114, 101, 109, 101, 110, 116, 115, 46, 116, 120, 116>>,
      <<116, 101, 115, 116, 46, 112, 121>>,
      <<99, 111, 110, 102, 116, 101, 115, 116, 46, 112, 121>> }

\* the str whose code points are cp
Str(cp) == CHOOSE n \in DOMAIN CodePoints : CodePoints[n] = cp

ReadFails(file) == file.read \in {"latin1_error", "error"}

\* a read failure leaves _analyze_file as an exception
OnReadError_propagate(read) == "raise"

\* both except clauses of _analyze_file print a warning and return
OnReadError(read) == "skip"

\* the module names _analyze_file adds to all_dependencies for one file
_analyze_file(file) ==
    IF lower(file.name) \in SkippedFileNames THEN {}
    ELSE IF ReadFails(file) THEN {}
    ELSE { Str(_extract_module_name(file.lines[i])) :
             i \in { j \in 1..Len(file.lines) :
                        _extract_module_name(file.lines[j]) # None } }

\* _analyze_file raises for this file
AnalyzeFileRaises(file) ==
    /\ lower(file.name) \notin SkippedFileNames
    /\ ReadFails(file)
    /\ OnReadError(file.read) = "raise"

IsPrefix(d, path) == Len(path) >= Len(d) /\ SubSeq(path, 1, Len(d)) = d

\* the names os.walk lists in dirs for the directory d below the scan root
SubDirs(files, d) ==
    { f.dir[Len(d) + 1] : f \in { g \in files : Len(g.dir) > Len(d) /\ IsPrefix(d, g.dir) } }

\* Path(root).name of the directory d below the scan root repo_path
CurrentName(repo_path, d) == IF d = <<>> THEN Last(repo_path) ELSE Last(d)

\* only the temporary directory is removed from dirs
PrunedDirs_tmp_only(dirs, current_name) ==
    IF ExtractorTmpName \in dirs /\ current_name # ExtractorTmpName
    THEN dirs \ {ExtractorTmpName} ELSE dirs

\* dirs after the two removals of the exclusion logic
PrunedDirs(dirs, current_name) ==
    LET without_venv == dirs \ {VENV_DIR_NAME}
    IN  IF ExtractorTmpName \in without_venv /\ current_name # ExtractorTmpName
        THEN without_venv \ {ExtractorTmpName} ELSE without_venv

RECURSIVE VisitedFiles(_, _, _)
\* the .py files os.walk hands to _analyze_file, from directory d downwards
VisitedFiles(files, repo_path, d) ==
    { f \in files : f.dir = d /\ EndsWith(f.name, DotPy) }
    \cup UNION { VisitedFiles(files, repo_path, d \o <<c>>) :
                    c \in PrunedDirs(SubDirs(files, d), CurrentName(repo_path, d)) }

\* all_dependencies after the walk of a tree that no read aborts
ModulesOfFiles(visited) == UNION { _analyze_file(f) : f \in visited }

(***************************************************************************)
(* State.                                                                  *)
(***************************************************************************)
VARIABLES
    tree,               \* repository snapshot: the files below the scan root
    repo_path,          \* analyze_repo: the scan root
    scans,              \* number of analyze_repo calls entered
    scanned,            \* what the latest analyze_repo call walked
    lastScan,           \* the analyze_repo call before the latest one
    repoConfig,         \* repository snapshot: project-configuration file at its root
    all_dependencies,   \* RequirementsExtractor.all_dependencies
    final_dependencies, \* analyze_repo: final_dependencies
    extPc,              \* analyze_repo: "idle", "returned", "raised" or "aborted"
    extReturn,          \* analyze_repo: the value returned to the caller
    manifestWritten,    \* analyze_repo opened tmp/requirements.txt for writing
    reqFile,            \* disk: tmp/requirements.txt
    filteredFile,       \* disk: tmp/requirements_filtered.txt
    venvDir,            \* disk: tmp/.venv_repro
    platform,           \* sys.platform
    stage,              \* data flow: "extract", "provision" or "exit"
    pc,                 \* create_and_install_venv: position of the current call
    callNo,             \* number of create_and_install_venv calls entered
    started,            \* subprocesses the current call has run, in order
    cleanupFailed,      \* shutil.rmtree(VENV_DIR) raised in the current call
    staleAtCreate,      \* VENV_DIR existed when the current call ran venv
    filterCalls,        \* filter_requirements calls of the current call
    requirements_to_install, \* create_and_install_venv: requirements_to_install
    result,             \* outcome of the current call
    prevResult,         \* outcome of the call before it
    lineParts,          \* _extract_module_name alone: the pieces of its line
    module_name,        \* _extract_module_name alone: the value returned
    extractPc,          \* _extract_module_name alone: "idle" or "returned"
    filterArg,          \* filter_requirements alone: requirements_file
    inputBefore,        \* filter_requirements alone: the input file at entry
    filterIO,           \* filter_requirements alone: what reading and writing did
    filterReturn,       \* filter_requirements alone: the path returned
    filterPc,           \* filter_requirements alone: "idle" or "returned"
    runPc,              \* runs on one working root: position of each run
    serialized,         \* runs on one working root: each waits for the one before
    clobbers,           \* runs on one working root: deletions of a directory in use
    checkout,           \* interpreter path: constants.ROOT, the working directory
    resolved,           \* interpreter path: what each resolver returned
    dlOp,               \* Downloader: the method called
    dlPc,               \* Downloader: position in the method
    max_retries,        \* Downloader.max_retries
    retry_delay,        \* Downloader.retry_delay
    attempt,            \* Downloader: the loop variable attempt
    dlDir,              \* disk: the directory _cleanup_single_dir is given
    slept,              \* Downloader: the time.sleep calls made, in order
    failures,           \* Downloader: the exceptions the attempts raised
    dlReturn,           \* Downloader: how the method ended
    paperUrls,          \* batch runner: what the name PAPER_URLS is bound to
    idx,                \* batch runner: the loop variable idx
    batchPc,            \* batch runner: position in main()
    results,            \* batch runner: results, the rows appended so far
    outputs,            \* batch runner: what the finally block wrote
    tmp,                \* disk: tmp/ with the demo and the interpreter in it
    pipePc,             \* pipeline process: position in run_pipeline
    log,                \* pipeline process: the lines captured from it
    returncode,         \* pipeline process: its exit status
    run                 \* pipeline process: what this run has done

extractorVars ==
    <<tree, repo_path, scans, scanned, lastScan, repoConfig, all_dependencies,
      final_dependencies, extPc, extReturn, manifestWritten>>

lineVars == <<lineParts, module_name, extractPc>>

filterVars == <<filterArg, inputBefore, filterIO, filterReturn, filterPc>>

concurrentVars == <<runPc, serialized, clobbers>>

resolverVars == <<checkout, resolved>>

downloaderVars ==
    <<dlOp, dlPc, max_retries, retry_delay, attempt, dlDir, slept, failures,
      dlReturn>>

batchVars ==
    <<paperUrls, idx, batchPc, results, outputs, tmp, pipePc, log,
      returncode, run>>

laterVars == <<resolverVars, downloaderVars, batchVars>>

lateVars == <<concurrentVars, laterVars>>

provisionerVars ==
    <<pc, callNo, started, cleanupFailed, staleAtCreate, filterCalls,
      requirements_to_install, result, prevResult>>

coreVars ==
    <<extractorVars, provisionerVars, lineVars, filterVars, reqFile,
      filteredFile, venvDir, platform, stage>>

vars ==
    <<tree, repo_path, scans, scanned, lastScan, repoConfig, all_dependencies,
      final_dependencies, extPc, extReturn, manifestWritten, reqFile,
      filteredFile, venvDir, platform, stage, pc, callNo, started,
      cleanupFailed, staleAtCreate, filterCalls, requirements_to_install,
      result, prevResult, lineParts, module_name, extractPc, filterArg,
      inputBefore, filterIO, filterReturn, filterPc, lateVars>>

(***************************************************************************)
(* Disk and input values the model starts from.                            *)
(***************************************************************************)
NoDir == [exists |-> FALSE, createdBy |-> 0, stage |-> "none"]

\* an environment a run before the first modelled call left behind
StaleDir == [exists |-> TRUE, createdBy |-> 0, stage |-> "installed"]

\* "numpy==1.0", "ast>=2", "# p", " enum34 "
LineNumpyPinned == CodePoints["numpy"] \o <<61, 61, 49, 46, 48>>

LineAstAtLeast == CodePoints["ast"] \o <<62, 61, 50>>

LineComment == <<35, 32, 112>>

LineEnum34Padded == <<32>> \o CodePoints["enum34"] \o <<32>>

\* manifests found at tmp/requirements.txt when the Provisioner is called
SampleManifests ==
    { <<>>,
      <<CodePoints["numpy"]>>,
      <<CodePoints["ast"]>>,
      <<LineAstAtLeast, LineComment, <<>>, LineNumpyPinned, LineEnum34Padded>> }

StaleManifest == TextFile(<<CodePoints["zmq"]>>)

\* repositories of the end-to-end scenarios, by the modules they import
SampleRepos ==
    { {},
      {"os", "sys"},
      {"ast"},
      {"PIL", "numpy", "os", "sys"},
      {"requests", "PIL", "os"} }

SourceFile(dir, name, lines, read) ==
    [dir |-> dir, name |-> name, lines |-> lines, read |-> read]

\* "import <m>" and "from <m>.sub import x"
ImportLine(m) == KwImport \o <<32>> \o CodePoints[m]

FromLine(m) == KwFrom \o <<32>> \o CodePoints[m] \o <<46, 115, 117, 98, 32, 105, 109, 112, 111, 114, 116, 32, 120>>

\* "from . import x"
RelativeLine == KwFrom \o <<32, 46, 32, 105, 109, 112, 111, 114, 116, 32, 120>>

\* "main.py"
MainPy == <<109, 97, 105, 110, 46, 112, 121>>

\* a repository whose only file, main.py at its root, imports the modules S
FlatTree(S) ==
    { SourceFile(<<>>, MainPy,
                 [i \in 1..Cardinality(S) |-> ImportLine(sorted(S)[i])], "utf8") }

\* what the Provisioner leaves inside tmp/.venv_repro
VenvSitePy ==
    SourceFile(<<VENV_DIR_NAME, "lib">>, <<115, 105, 116, 101, 46, 112, 121>>, <<ImportLine("six")>>, "utf8")

\* the files a scanned tree is made of in the scans of arbitrary trees
CandidateFiles ==
    { SourceFile(<<>>, MainPy, <<FromLine("numpy"), RelativeLine>>, "utf8"),
      SourceFile(<<>>, <<97, 112, 112, 46, 112, 121>>, <<ImportLine("os"), FromLine("PIL")>>, "latin1"),
      SourceFile(<<>>, <<98, 97, 100, 46, 112, 121>>, <<ImportLine("requests")>>, "latin1_error"),
      SourceFile(<<>>, <<98, 97, 100, 46, 112, 121>>, <<ImportLine("requests")>>, "error"),
      SourceFile(<<>>, <<99, 111, 110, 102, 116, 101, 115, 116, 46, 112, 121>>, <<ImportLine("cv2")>>, "utf8"),
      SourceFile(<<>>, <<110, 111, 116, 101, 115, 46, 116, 120, 116>>, <<ImportLine("zmq")>>, "utf8"),
      SourceFile(<<"src">>, <<117, 116, 105, 108, 46, 112, 121>>, <<FromLine("sklearn")>>, "utf8"),
      SourceFile(<<"tmp">>, <<103, 101, 110, 46, 112, 121>>, <<ImportLine("requests")>>, "utf8"),
      SourceFile(<<"src", "tmp">>, <<100, 101, 101, 112, 46, 112, 121>>, <<ImportLine("yaml")>>, "utf8"),
      VenvSitePy,
      SourceFile(<<"src", VENV_DIR_NAME>>, <<118, 46, 112, 121>>, <<ImportLine("cv2")>>, "utf8"),
      SourceFile(<<".git", "hooks">>, <<104, 111, 111, 107, 46, 112, 121>>, <<ImportLine("yaml")>>, "utf8") }

\* no two files of a tree have the same path
IsTree(files) ==
    \A f, g \in files : (f.dir = g.dir /\ f.name = g.name) => f = g

Trees == { files \in SubsetsUpTo(CandidateFiles, MaxFiles) : IsTree(files) }

\* the scan roots: the clone directory tmp/repo and the working directory tmp
ScanRoots == { TMP_DIR \o <<"repo">>, TMP_DIR }

\* a manifest as a file of the directory it lies in
ManifestFile(name, file) == SourceFile(<<>>, name, file.lines, "utf8")

\* "requirements.txt", "requirements_filtered.txt"
RequirementsTxt == <<114, 101, 113, 117, 105, 114, 101, 109, 101, 110, 116, 115, 46, 116, 120, 116>>

RequirementsFilteredTxt == <<114, 101, 113, 117, 105, 114, 101, 109, 101, 110, 116, 115, 95, 102, 105, 108, 116, 101, 114, 101, 100, 46, 116, 120, 116>>

\* the files os.walk meets below root: the repository and, when root is the
\* working directory, the manifests and the environment that lie in it
FilesBelow(root, files, manifest, filtered, venv) ==
    IF root # TMP_DIR THEN files
    ELSE files
         \cup (IF manifest.exists THEN {ManifestFile(RequirementsTxt, manifest)} ELSE {})
         \cup (IF filtered.exists THEN {ManifestFile(RequirementsFilteredTxt, filtered)} ELSE {})
         \cup (IF venv.exists THEN {VenvSitePy} ELSE {})

\* project-configuration files recognised at the repository root
ProjectConfigFiles == {"pyproject.toml", "setup.py", "setup.cfg"}

NoResult == [status |-> "none", error |-> NoError]

Running == [status |-> "running", error |-> NoError]

Returned == [status |-> "returned", error |-> NoError]

Raised(e) == [status |-> "raised", error |-> e]

NoScan == [files |-> {}, venv |-> FALSE]

NoLastScan == [status |-> "none", scanned |-> NoScan, manifest |-> NoFile]

InitExtractorIdle ==
    /\ all_dependencies = {}
    /\ final_dependencies = <<>>
    /\ extPc = "idle"
    /\ extReturn = "unset"
    /\ manifestWritten = FALSE
    /\ scans = 0
    /\ scanned = NoScan
    /\ lastScan = NoLastScan

InitProvisionerIdle ==
    /\ pc = "idle"
    /\ callNo = 0
    /\ started = <<>>
    /\ cleanupFailed = FALSE
    /\ staleAtCreate = FALSE
    /\ filterCalls = 0
    /\ requirements_to_install = <<>>
    /\ result = NoResult
    /\ prevResult = NoResult

InitLineIdle ==
    /\ lineParts = [prefix |-> <<>>, keyword |-> KwImport, sep |-> <<32>>,
                    name |-> CodePoints["os"], suffix |-> <<>>]
    /\ module_name = None
    /\ extractPc = "idle"

NoIO == [readOk |-> TRUE, writeOutcome |-> "ok"]

InitFilterIdle ==
    /\ filterArg = REQUIREMENTS_FILE
    /\ inputBefore = NoFile
    /\ filterIO = NoIO
    /\ filterReturn = <<>>
    /\ filterPc = "idle"

Runs == 1..MaxRuns

InitConcurrentIdle ==
    /\ runPc = [r \in Runs |-> "idle"]
    /\ serialized = TRUE
    /\ clobbers = {}

\* no resolver was called
NoneResolved == [venv_create |-> None, main |-> None, batch_eval |-> None]

InitResolverIdle ==
    /\ checkout = <<>>
    /\ resolved = NoneResolved

\* what shutil.rmtree meets at an entry: nothing, an entry it removes, one
\* it removes once the handler made it writable, one that cannot be removed
EntryKinds == {"gone", "plain", "readonly", "locked"}

\* a directory of two entries, listed in the order rmtree visits them: the
\* entries first, the directory itself last
NoDirectory == <<"gone", "gone", "gone">>

NotCalled == [kind |-> "none"]

InitDownloaderIdle ==
    /\ dlOp = "none"
    /\ dlPc = "idle"
    /\ max_retries = 5
    /\ retry_delay = 1
    /\ attempt = 0
    /\ dlDir = NoDirectory
    /\ slept = <<>>
    /\ failures = <<>>
    /\ dlReturn = NotCalled

\* tmp/ does not exist
NoTmp == [exists |-> FALSE, demo |-> 0, python |-> FALSE]

\* a pipeline process that has entered no step
NewRun ==
    [entered |-> 0, provisionFailed |-> FALSE, demoStarted |-> FALSE,
     completed |-> FALSE]

NothingWritten ==
    [written |-> FALSE, total_papers |-> 0, processed_papers |-> 0]

\* no pipeline process is running
InitPipelineOff ==
    /\ pipePc = "off"
    /\ log = <<>>
    /\ returncode = 0
    /\ run = NewRun

InitBatchIdle ==
    /\ paperUrls = [bound |-> FALSE, n |-> 0]
    /\ idx = 0
    /\ batchPc = "off"
    /\ results = <<>>
    /\ outputs = NothingWritten
    /\ tmp = NoTmp
    /\ InitPipelineOff

InitLaterIdle ==
    /\ InitResolverIdle
    /\ InitDownloaderIdle
    /\ InitBatchIdle

InitLateIdle ==
    /\ InitConcurrentIdle
    /\ InitLaterIdle

\* the extractor, the Provisioner and the single calls at rest
InitCoreIdle ==
    /\ tree = {}
    /\ repo_path = TMP_DIR \o <<"repo">>
    /\ repoConfig = "none"
    /\ InitExtractorIdle
    /\ stage = "unit"
    /\ InitProvisionerIdle
    /\ InitLineIdle
    /\ InitFilterIdle

\* scan -> classify -> write -> filter -> provision on a repository snapshot
Init ==
    /\ tree \in {FlatTree(S) : S \in SampleRepos}
    /\ repo_path \in ScanRoots
    /\ repoConfig \in ProjectConfigFiles \cup {"none"}
    /\ InitExtractorIdle
    /\ reqFile \in {NoFile, StaleManifest}
    /\ filteredFile = NoFile
    /\ venvDir \in {NoDir, StaleDir}
    /\ platform \in Platforms
    /\ stage = "extract"
    /\ InitProvisionerIdle
    /\ InitLineIdle
    /\ InitFilterIdle
    /\ InitLateIdle

\* the extractor alone, on every repository importing at most MaxDeps modules
InitClassify ==
    /\ tree \in {FlatTree(S) : S \in SubsetsUpTo(Modules, MaxDeps) \cup SampleRepos}
    /\ repo_path = TMP_DIR \o <<"repo">>
    /\ repoConfig = "none"
    /\ InitExtractorIdle
    /\ reqFile \in {NoFile, StaleManifest}
    /\ filteredFile = NoFile
    /\ venvDir = NoDir
    /\ platform = <<"l", "i", "n", "u", "x">>
    /\ stage = "extract"
    /\ InitProvisionerIdle
    /\ InitLineIdle
    /\ InitFilterIdle
    /\ InitLateIdle

\* the extractor alone, on every tree of at most MaxFiles files, in a working
\* directory that holds the environment of an earlier run
InitScan ==
    /\ tree \in Trees
    /\ repo_path \in ScanRoots
    /\ repoConfig = "none"
    /\ InitExtractorIdle
    /\ reqFile \in {NoFile, StaleManifest}
    /\ filteredFile = NoFile
    /\ venvDir = StaleDir
    /\ platform = <<"l", "i", "n", "u", "x">>
    /\ stage = "extract"
    /\ InitProvisionerIdle
    /\ InitLineIdle
    /\ InitFilterIdle
    /\ InitLateIdle

\* repositories the pipeline is run on repeatedly
RerunRepos == { {"os", "sys"}, {"PIL", "numpy", "os", "sys"} }

\* the pipeline run again and again on one repository, from a clean working
\* directory
InitRerun ==
    /\ tree \in {FlatTree(S) : S \in RerunRepos}
    /\ repo_path \in ScanRoots
    /\ repoConfig = "none"
    /\ InitExtractorIdle
    /\ reqFile = NoFile
    /\ filteredFile = NoFile
    /\ venvDir = NoDir
    /\ platform = <<"l", "i", "n", "u", "x">>
    /\ stage = "extract"
    /\ InitProvisionerIdle
    /\ InitLineIdle
    /\ InitFilterIdle
    /\ InitLateIdle

\* the Provisioner alone, called on a working root prepared beforehand
InitProvision ==
    /\ tree = {}
    /\ repo_path = TMP_DIR \o <<"repo">>
    /\ repoConfig = "none"
    /\ InitExtractorIdle
    /\ reqFile \in {NoFile} \cup {TextFile(m) : m \in SampleManifests}
    /\ filteredFile \in {NoFile, StaleManifest}
    /\ venvDir \in {NoDir, StaleDir}
    /\ platform \in Platforms
    /\ stage = "provision"
    /\ InitProvisionerIdle
    /\ InitLineIdle
    /\ InitFilterIdle
    /\ InitLateIdle

\* requirement lines handed to filter_requirements alone
FilterLinePool ==
    { <<110, 117, 109, 112, 121>>, <<110, 117, 109, 112, 121, 61, 61, 49, 46, 48>>, <<114, 101, 113, 117, 101, 115, 116, 115, 60, 51>>, <<97, 115, 116>>, <<97, 115, 116, 62, 61, 50>>, <<97, 115, 116, 32, 61, 61, 49>>, <<97, 115, 116, 33, 61, 49, 46, 48>>, <<101, 110, 117, 109, 51, 52, 126, 61, 49, 46, 49>>,
      <<32, 101, 110, 117, 109, 51, 52, 32>>, <<97, 115, 116, 111, 114>>, <<35, 32, 112>>, <<35, 97, 115, 116>>, <<>>, <<32, 32, 32>> }

RECURSIVE SeqsUpTo(_, _)
\* the sequences over S of length at most n
SeqsUpTo(S, n) ==
    IF n = 0 THEN {<<>>}
    ELSE LET shorter == SeqsUpTo(S, n - 1)
         IN  shorter \cup {Append(q, x) : q \in shorter, x \in S}

\* the paths filter_requirements is called with
FilterArgs == {REQUIREMENTS_FILE, FilteredPath(REQUIREMENTS_FILE)}

\* the file at a path of the working directory
Disk(path, manifest, filtered) ==
    IF path = REQUIREMENTS_FILE THEN manifest ELSE filtered

\* filter_requirements alone, on every manifest of at most MaxLines lines
InitFilter ==
    /\ tree = {}
    /\ repo_path = TMP_DIR \o <<"repo">>
    /\ repoConfig = "none"
    /\ InitExtractorIdle
    /\ filterArg \in FilterArgs
    /\ \E input \in {NoFile} \cup {TextFile(m) : m \in SeqsUpTo(FilterLinePool, MaxLines)},
          other \in {NoFile, StaleManifest} :
            /\ reqFile = IF filterArg = REQUIREMENTS_FILE THEN input ELSE other
            /\ filteredFile = IF filterArg = REQUIREMENTS_FILE THEN other ELSE input
    /\ venvDir = NoDir
    /\ platform = <<"l", "i", "n", "u", "x">>
    /\ stage = "unit"
    /\ InitProvisionerIdle
    /\ InitLineIdle
    /\ inputBefore = NoFile
    /\ filterIO = NoIO
    /\ filterReturn = <<>>
    /\ filterPc = "idle"
    /\ InitLateIdle

\* MaxRuns runs of the Provisioner on one working root, started by a caller
\* that serializes them or by one that does not
InitConcurrent ==
    /\ InitCoreIdle
    /\ reqFile \in {NoFile, TextFile(<<CodePoints["numpy"]>>)}
    /\ filteredFile = NoFile
    /\ venvDir \in {NoDir, StaleDir}
    /\ platform = <<"l", "i", "n", "u", "x">>
    /\ runPc = [r \in Runs |-> "idle"]
    /\ serialized \in BOOLEAN
    /\ clobbers = {}
    /\ InitLaterIdle

\* _extract_module_name alone, on every line of SampleLines
InitExtract ==
    /\ tree = {}
    /\ repo_path = TMP_DIR \o <<"repo">>
    /\ repoConfig = "none"
    /\ InitExtractorIdle
    /\ reqFile = NoFile
    /\ filteredFile = NoFile
    /\ venvDir = NoDir
    /\ platform = <<"l", "i", "n", "u", "x">>
    /\ stage = "unit"
    /\ InitProvisionerIdle
    /\ lineParts \in SampleLines
    /\ module_name = None
    /\ extractPc = "idle"
    /\ InitFilterIdle
    /\ InitLateIdle

(***************************************************************************)
(* requirements_extract.py: analyze_repo.                                  *)
(***************************************************************************)
\* the names of an earlier call stay in all_dependencies
ResetDependencies_keep(previous) == previous

\* self.all_dependencies = set()
ResetDependencies(previous) == {}

\* the module names the walk of analyze_repo adds to all_dependencies
ScanResult(files, root) == ModulesOfFiles(VisitedFiles(files, root, <<>>))

\* an exception of _analyze_file leaves the walk
ScanAborts(files, root) ==
    \E f \in VisitedFiles(files, root, <<>>) : AnalyzeFileRaises(f)

\* requirements.txt after _write_requirements_file
WrittenManifest(before, dependencies, writeOutcome) ==
    IF writeOutcome = "ok" THEN TextFile(ManifestLines(dependencies))
    ELSE IF writeOutcome = "open_fails" THEN before
    ELSE TextFile(<<>>)

analyze_repo ==
    /\ stage = "extract"
    /\ extPc = "idle"
    /\ \E writeOutcome \in WriteOutcomes :
        LET files == FilesBelow(repo_path, tree, reqFile, filteredFile, venvDir)
            deps == ResetDependencies(all_dependencies) \cup ScanResult(files, repo_path)
            final == _map_to_package_names(deps)
        IN  /\ all_dependencies' = deps
            /\ scanned' = [files |-> tree, venv |-> venvDir.exists]
            /\ IF ScanAborts(files, repo_path)
               THEN /\ final_dependencies' = <<>>
                    /\ reqFile' = reqFile
                    /\ manifestWritten' = FALSE
                    /\ extPc' = "aborted"
                    /\ extReturn' = "unset"
                    /\ stage' = "exit"
               ELSE /\ final_dependencies' = final
                    /\ reqFile' = WrittenManifest(reqFile, final, writeOutcome)
                    /\ manifestWritten' = (writeOutcome # "open_fails")
                    /\ extPc' = IF writeOutcome = "ok" THEN "returned" ELSE "raised"
                    /\ extReturn' = IF writeOutcome = "ok" THEN "None" ELSE "unset"
                    /\ stage' = IF writeOutcome = "ok" THEN "provision" ELSE "exit"
    /\ scans' = scans + 1
    /\ UNCHANGED <<tree, repo_path, lastScan, repoConfig, filteredFile, venvDir,
                   platform>>
    /\ UNCHANGED <<provisionerVars, lineVars, filterVars>>
    /\ UNCHANGED lateVars

\* the caller runs the extraction again, on the extractor it has or on a new
\* RequirementsExtractor
NewExtraction ==
    /\ stage \in {"provision", "exit"}
    /\ extPc # "idle"
    /\ pc \in {"idle", "done", "failed"}
    /\ scans < MaxScans
    /\ \E fresh \in BOOLEAN :
        all_dependencies' = IF fresh THEN {} ELSE all_dependencies
    /\ lastScan' = [status |-> extPc, scanned |-> scanned, manifest |-> reqFile]
    /\ extPc' = "idle"
    /\ extReturn' = "unset"
    /\ stage' = "extract"
    /\ UNCHANGED <<tree, repo_path, scans, scanned, repoConfig,
                   final_dependencies, manifestWritten, reqFile, filteredFile,
                   venvDir, platform>>
    /\ UNCHANGED <<provisionerVars, lineVars, filterVars>>
    /\ UNCHANGED lateVars

\* the repository changes between two scans: one file is added or removed
EditRepository ==
    /\ extPc # "idle"
    /\ pc \in {"idle", "done", "failed"}
    /\ scans < MaxScans
    /\ tree = scanned.files
    /\ \E f \in CandidateFiles :
        /\ tree' = IF f \in tree THEN tree \ {f} ELSE tree \cup {f}
        /\ IsTree(tree')
        /\ Cardinality(tree') <= MaxFiles
    /\ UNCHANGED <<repo_path, scans, scanned, lastScan, repoConfig,
                   all_dependencies, final_dependencies, extPc, extReturn,
                   manifestWritten, reqFile, filteredFile, venvDir, platform,
                   stage>>
    /\ UNCHANGED <<provisionerVars, lineVars, filterVars>>
    /\ UNCHANGED lateVars

\* one call of filter_requirements
FilterAlone ==
    /\ stage = "unit"
    /\ filterPc = "idle"
    /\ filterArg \in FilterArgs
    /\ \E readOk \in BOOLEAN, writeOutcome \in WriteOutcomes :
        LET f == filter_requirements(filterArg, Disk(filterArg, reqFile, filteredFile),
                                     filteredFile, readOk, writeOutcome)
        IN  /\ filterReturn' = f.path
            /\ filteredFile' = f.sibling
            /\ filterIO' = [readOk |-> readOk, writeOutcome |-> writeOutcome]
    /\ inputBefore' = Disk(filterArg, reqFile, filteredFile)
    /\ filterPc' = "returned"
    /\ UNCHANGED <<filterArg, reqFile, venvDir, platform, stage>>
    /\ UNCHANGED <<extractorVars, provisionerVars, lineVars>>
    /\ UNCHANGED lateVars

\* one call of _extract_module_name
ExtractModuleName ==
    /\ stage = "unit"
    /\ extractPc = "idle"
    /\ filterPc = "idle"
    /\ lineParts \in SampleLines
    /\ module_name' = _extract_module_name(LineText(lineParts))
    /\ extractPc' = "returned"
    /\ UNCHANGED <<lineParts, reqFile, filteredFile, venvDir, platform, stage>>
    /\ UNCHANGED <<extractorVars, provisionerVars, filterVars>>
    /\ UNCHANGED lateVars

(***************************************************************************)
(* venv_create.py: create_and_install_venv.                                *)
(***************************************************************************)
\* a command is a list of words; a path used as a word is str(path), kept
\* here as the tuple of its components, and every other word as <<word>>
CreateCommand == <<<<"sys.executable">>, <<"-m">>, <<"venv">>, VENV_DIR>>

UpgradeCommand(python_executable) ==
    <<python_executable, <<"-m">>, <<"pip">>, <<"install">>, <<"--upgrade">>,
      <<"pip">>, <<"setuptools">>, <<"wheel">>>>

InstallCommand(python_executable, requirements) ==
    <<python_executable, <<"-m">>, <<"pip">>, <<"install">>,
      <<"--no-cache-dir">>, <<"-r">>, requirements,
      <<"--no-build-isolation">>>>

Started(step, command, outcome) ==
    [step |-> step, cmd |-> command, outcome |-> outcome]

\* the try/except around shutil.rmtree(VENV_DIR): execution continues with
\* the creation of the environment whether or not the removal succeeded
AfterCleanup(removed) == "create"

\* a failing step is run again instead of raising
AfterStep_retry(step, r, next) == IF r.raised THEN step ELSE next

\* no try surrounds the execute_subprocess calls: its RuntimeError leaves
\* create_and_install_venv, otherwise control reaches the next statement
AfterStep(step, r, next) == IF r.raised THEN "failed" ELSE next

\* only the missing file skips the installation
SkipInstall_absent(manifest) == ~manifest.exists

\* a manifest the filter leaves nothing of skips the installation too
SkipInstall_nothing_kept(manifest) ==
    \/ ~manifest.exists
    \/ IsEmptyFile(manifest)
    \/ filtered_lines(manifest.lines) = <<>>

\* not REQUIREMENTS_FILE.exists() or REQUIREMENTS_FILE.stat().st_size == 0
SkipInstall(manifest) == ~manifest.exists \/ IsEmptyFile(manifest)

\* the outcome of the call once control is at position p
ResultAt(p, r, current) ==
    IF p = "done" THEN Returned
    ELSE IF p = "failed" THEN Raised(r.error)
    ELSE current

\* tmp/.venv_repro after `python -m venv`: an existing directory is kept and
\* written into; a failed creation may leave a partial directory
VenvAfterCreate(dir, outcome, call, leftover) ==
    IF Succeeded(outcome)
    THEN IF dir.exists THEN [dir EXCEPT !.stage = "created"]
         ELSE [exists |-> TRUE, createdBy |-> call, stage |-> "created"]
    ELSE IF NonZeroExit(outcome) /\ leftover /\ ~dir.exists
    THEN [exists |-> TRUE, createdBy |-> call, stage |-> "partial"]
    ELSE dir

VenvAfter(dir, outcome, reached) ==
    IF Succeeded(outcome) /\ dir.exists THEN [dir EXCEPT !.stage = reached]
    ELSE dir

\* entry of create_and_install_venv up to the test VENV_DIR.exists()
EnterProvisioner ==
    /\ stage = "provision"
    /\ pc \in {"idle", "done", "failed"}
    /\ callNo < MaxCalls
    /\ callNo' = callNo + 1
    /\ started' = <<>>
    /\ cleanupFailed' = FALSE
    /\ staleAtCreate' = FALSE
    /\ filterCalls' = 0
    /\ requirements_to_install' = <<>>
    /\ prevResult' = result
    /\ result' = Running
    /\ pc' = IF venvDir.exists THEN "cleanup" ELSE "create"
    /\ UNCHANGED <<reqFile, filteredFile, venvDir, platform, stage>>
    /\ UNCHANGED <<extractorVars, lineVars, filterVars>>
    /\ UNCHANGED lateVars

\* shutil.rmtree(VENV_DIR) inside try/except Exception
CleanupVenv ==
    /\ pc = "cleanup"
    /\ \E removed \in BOOLEAN :
        /\ venvDir' = IF removed THEN NoDir ELSE venvDir
        /\ cleanupFailed' = ~removed
        /\ pc' = AfterCleanup(removed)
    /\ UNCHANGED <<reqFile, filteredFile, platform, stage, callNo, started,
                   staleAtCreate, filterCalls, requirements_to_install,
                   result, prevResult>>
    /\ UNCHANGED <<extractorVars, lineVars, filterVars>>
    /\ UNCHANGED lateVars

\* 5a: python -m venv tmp/.venv_repro
CreateVenv ==
    /\ pc = "create"
    /\ \E outcome \in SubprocessOutcomes, leftover \in BOOLEAN :
        LET r == execute_subprocess(CreateCommand,
                                    "Virtual environment creation", outcome)
            next == AfterStep("create", r, "upgrade")
        IN  /\ started' = Append(started, Started("create", CreateCommand, outcome))
            /\ staleAtCreate' = venvDir.exists
            /\ venvDir' = VenvAfterCreate(venvDir, outcome, callNo, leftover)
            /\ pc' = next
            /\ result' = ResultAt(next, r, result)
    /\ UNCHANGED <<reqFile, filteredFile, platform, stage, callNo,
                   cleanupFailed, filterCalls, requirements_to_install,
                   prevResult>>
    /\ UNCHANGED <<extractorVars, lineVars, filterVars>>
    /\ UNCHANGED lateVars

\* 5b: upgrade pip, setuptools and wheel, then the test of the manifest
UpgradeTools ==
    /\ pc = "upgrade"
    /\ \E outcome \in SubprocessOutcomes :
        LET command == UpgradeCommand(get_venv_python_executable(VENV_DIR, platform))
            r == execute_subprocess(command, "Upgrade of core build tools", outcome)
            next == AfterStep("upgrade", r,
                        IF SkipInstall(reqFile) THEN "done" ELSE "filter")
        IN  /\ started' = Append(started, Started("upgrade", command, outcome))
            /\ venvDir' = VenvAfter(venvDir, outcome, "upgraded")
            /\ pc' = next
            /\ result' = ResultAt(next, r, result)
    /\ UNCHANGED <<reqFile, filteredFile, platform, stage, callNo,
                   cleanupFailed, staleAtCreate, filterCalls,
                   requirements_to_install, prevResult>>
    /\ UNCHANGED <<extractorVars, lineVars, filterVars>>
    /\ UNCHANGED lateVars

\* requirements_to_install = filter_requirements(REQUIREMENTS_FILE)
FilterRequirements ==
    /\ pc = "filter"
    /\ \E readOk \in BOOLEAN, writeOutcome \in WriteOutcomes :
        LET f == filter_requirements(REQUIREMENTS_FILE, reqFile, filteredFile,
                                     readOk, writeOutcome)
        IN  /\ requirements_to_install' = f.path
            /\ filteredFile' = f.sibling
    /\ filterCalls' = filterCalls + 1
    /\ pc' = "install"
    /\ UNCHANGED <<reqFile, venvDir, platform, stage, callNo, started,
                   cleanupFailed, staleAtCreate, result, prevResult>>
    /\ UNCHANGED <<extractorVars, lineVars, filterVars>>
    /\ UNCHANGED lateVars

\* pip install --no-cache-dir -r <requirements_to_install> --no-build-isolation
InstallRequirements ==
    /\ pc = "install"
    /\ \E outcome \in SubprocessOutcomes :
        LET command == InstallCommand(get_venv_python_executable(VENV_DIR, platform),
                                      requirements_to_install)
            r == execute_subprocess(command, "Final dependency installation", outcome)
            next == AfterStep("install", r, "done")
        IN  /\ started' = Append(started, Started("install", command, outcome))
            /\ venvDir' = VenvAfter(venvDir, outcome, "installed")
            /\ pc' = next
            /\ result' = ResultAt(next, r, result)
    /\ UNCHANGED <<reqFile, filteredFile, platform, stage, callNo,
                   cleanupFailed, staleAtCreate, filterCalls,
                   requirements_to_install, prevResult>>
    /\ UNCHANGED <<extractorVars, lineVars, filterVars>>
    /\ UNCHANGED lateVars

(***************************************************************************)
(* Several runs of create_and_install_venv on one working root.  The       *)
(* function takes no lock: whether two runs overlap is decided by whoever  *)
(* starts them.  The batch runner starts each pipeline with a blocking     *)
(* subprocess.run and so starts the next only after the one before ended.  *)
(***************************************************************************)
\* positions at which a run is between its entry and its end
ActivePcs == {"cleanup", "create", "upgrade", "filter", "install", "ready", "failed"}

\* positions at which a run has created the environment and upgrades it,
\* installs into it or has returned it to its caller
InUsePcs == {"upgrade", "filter", "install", "ready"}

\* the next run is started without waiting for the one before
MayStart_nowait(serial, others) == TRUE

\* a caller that serializes waits until no other run is active
MayStart(serial, others) == serial => \A p \in others : p \notin ActivePcs

\* "done" of a single call, seen from the run that made the call
RunPosition(p) == IF p = "done" THEN "ready" ELSE p

\* entry of create_and_install_venv up to the test VENV_DIR.exists()
RunEnter(r) ==
    /\ runPc[r] = "idle"
    /\ MayStart(serialized, {runPc[q] : q \in Runs \ {r}})
    /\ runPc' = [runPc EXCEPT ![r] = IF venvDir.exists THEN "cleanup" ELSE "create"]
    /\ UNCHANGED <<serialized, clobbers, reqFile, filteredFile, venvDir,
                   platform, stage>>
    /\ UNCHANGED <<extractorVars, provisionerVars, lineVars, filterVars>>
    /\ UNCHANGED laterVars

\* shutil.rmtree(VENV_DIR) inside try/except Exception
RunCleanup(r) ==
    /\ runPc[r] = "cleanup"
    /\ \E removed \in BOOLEAN :
        /\ venvDir' = IF removed THEN NoDir ELSE venvDir
        /\ clobbers' = IF removed /\ venvDir.exists
                       THEN clobbers \cup { [by |-> r, of |-> q, at |-> runPc[q]] :
                                              q \in { v \in Runs \ {r} : runPc[v] \in InUsePcs } }
                       ELSE clobbers
        /\ runPc' = [runPc EXCEPT ![r] = AfterCleanup(removed)]
    /\ UNCHANGED <<serialized, reqFile, filteredFile, platform, stage>>
    /\ UNCHANGED <<extractorVars, provisionerVars, lineVars, filterVars>>
    /\ UNCHANGED laterVars

\* python -m venv tmp/.venv_repro
RunCreate(r) ==
    /\ runPc[r] = "create"
    /\ \E outcome \in SubprocessOutcomes, leftover \in BOOLEAN :
        LET res == execute_subprocess(CreateCommand,
                                      "Virtual environment creation", outcome)
        IN  /\ venvDir' = VenvAfterCreate(venvDir, outcome, r, leftover)
            /\ runPc' = [runPc EXCEPT ![r] = AfterStep("create", res, "upgrade")]
    /\ UNCHANGED <<serialized, clobbers, reqFile, filteredFile, platform, stage>>
    /\ UNCHANGED <<extractorVars, provisionerVars, lineVars, filterVars>>
    /\ UNCHANGED laterVars

\* upgrade pip, setuptools and wheel, then the test of the manifest
RunUpgrade(r) ==
    /\ runPc[r] = "upgrade"
    /\ \E outcome \in SubprocessOutcomes :
        LET command == UpgradeCommand(get_venv_python_executable(VENV_DIR, platform))
            res == execute_subprocess(command, "Upgrade of core build tools", outcome)
            next == AfterStep("upgrade", res,
                        IF SkipInstall(reqFile) THEN "done" ELSE "filter")
        IN  /\ venvDir' = VenvAfter(venvDir, outcome, "upgraded")
            /\ runPc' = [runPc EXCEPT ![r] = RunPosition(next)]
    /\ UNCHANGED <<serialized, clobbers, reqFile, filteredFile, platform, stage>>
    /\ UNCHANGED <<extractorVars, provisionerVars, lineVars, filterVars>>
    /\ UNCHANGED laterVars

\* requirements_to_install = filter_requirements(REQUIREMENTS_FILE)
RunFilter(r) ==
    /\ runPc[r] = "filter"
    /\ \E readOk \in BOOLEAN, writeOutcome \in WriteOutcomes :
        filteredFile' = filter_requirements(REQUIREMENTS_FILE, reqFile, filteredFile,
                                            readOk, writeOutcome).sibling
    /\ runPc' = [runPc EXCEPT ![r] = "install"]
    /\ UNCHANGED <<serialized, clobbers, reqFile, venvDir, platform, stage>>
    /\ UNCHANGED <<extractorVars, provisionerVars, lineVars, filterVars>>
    /\ UNCHANGED laterVars

\* pip install --no-cache-dir -r <requirements_to_install> --no-build-isolation
RunInstall(r) ==
    /\ runPc[r] = "install"
    /\ \E outcome \in SubprocessOutcomes :
        LET command == InstallCommand(get_venv_python_executable(VENV_DIR, platform),
                                      REQUIREMENTS_FILE)
            res == execute_subprocess(command, "Final dependency installation", outcome)
        IN  /\ venvDir' = VenvAfter(venvDir, outcome, "installed")
            /\ runPc' = [runPc EXCEPT ![r] = RunPosition(AfterStep("install", res, "done"))]
    /\ UNCHANGED <<serialized, clobbers, reqFile, filteredFile, platform, stage>>
    /\ UNCHANGED <<extractorVars, provisionerVars, lineVars, filterVars>>
    /\ UNCHANGED laterVars

\* the process that made the call ends and no longer uses the environment
RunEnd(r) ==
    /\ runPc[r] \in {"ready", "failed"}
    /\ runPc' = [runPc EXCEPT ![r] = "ended"]
    /\ UNCHANGED <<serialized, clobbers, reqFile, filteredFile, venvDir,
                   platform, stage>>
    /\ UNCHANGED <<extractorVars, provisionerVars, lineVars, filterVars>>
    /\ UNCHANGED laterVars

(***************************************************************************)
(* The three resolvers of the environment's interpreter:                   *)
(* venv_create.get_venv_python_executable, main.get_venv_python_executable *)
(* and batch_eval.get_venv_python.  The first two are given the relative   *)
(* tmp/.venv_repro and run with the checkout as working directory; the     *)
(* third reads constants.VENV_DIR, built from constants.ROOT.              *)
(***************************************************************************)
\* sys.platform values: linux, win32, darwin, cygwin, msys, aix, emscripten,
\* wasi
HostPlatforms ==
    Platforms \cup
    { <<"c", "y", "g", "w", "i", "n">>,
      <<"m", "s", "y", "s">>,
      <<"a", "i", "x">>,
      <<"e", "m", "s", "c", "r", "i", "p", "t", "e", "n">>,
      <<"w", "a", "s", "i">> }

\* constants.ROOT: the directory above src/, wherever the repository is
Checkouts ==
    { <<"/", "repo">>,
      <<"/", "home", "user", "Repoduce-Me">>,
      <<"/", "srv", "Repoduce-Me">>,
      <<"/", "tmp", "Repoduce-Me">>,
      <<"C:\\", "Repoduce-Me">>,
      <<"C:\\", "Users", "user", "Repoduce-Me">>,
      <<"/", "opt", "win", "Repoduce-Me">> }

\* constants.TMP_DIR / ".venv_repro" with TMP_DIR = ROOT / "tmp"
ConstantsVenvDir(root) == root \o <<"tmp">> \o <<".venv_repro">>

\* a relative path as the process whose working directory is cwd opens it
Resolve(cwd, path) == cwd \o path

\* main.py: get_venv_python_executable
main_get_venv_python_executable(venv_path, sys_platform) ==
    IF StartsWith(sys_platform, <<"w", "i", "n">>)
    THEN venv_path \o <<"Scripts">> \o <<"python.exe">>
    ELSE venv_path \o <<"bin">> \o <<"python">>

\* the batch runner looks for bin/python on every host
get_venv_python_posix(venv_dir, sys_platform) ==
    venv_dir \o <<"bin">> \o <<"python">>

\* batch_eval.py: get_venv_python, reading the globals VENV_DIR and
\* sys.platform
get_venv_python(venv_dir, sys_platform) ==
    IF StartsWith(sys_platform, <<"w", "i", "n">>)
    THEN venv_dir \o <<"Scripts">> \o <<"python.exe">>
    ELSE venv_dir \o <<"bin">> \o <<"python">>

\* venv_create.py:115, python_executable = get_venv_python_executable(VENV_DIR)
ResolveInProvisioner ==
    /\ checkout \in Checkouts
    /\ resolved.venv_create = None
    /\ resolved' = [resolved EXCEPT !.venv_create =
            Resolve(checkout, get_venv_python_executable(VENV_DIR, platform))]
    /\ UNCHANGED <<checkout, coreVars, concurrentVars, downloaderVars, batchVars>>

\* main.py:76, python_executable = get_venv_python_executable(VENV_DIR)
ResolveInPipeline ==
    /\ checkout \in Checkouts
    /\ resolved.main = None
    /\ resolved' = [resolved EXCEPT !.main =
            Resolve(checkout, main_get_venv_python_executable(VENV_DIR, platform))]
    /\ UNCHANGED <<checkout, coreVars, concurrentVars, downloaderVars, batchVars>>

\* batch_eval.py:192, venv_python = get_venv_python()
ResolveInBatch ==
    /\ checkout \in Checkouts
    /\ resolved.batch_eval = None
    /\ resolved' = [resolved EXCEPT !.batch_eval =
            get_venv_python(ConstantsVenvDir(checkout), platform)]
    /\ UNCHANGED <<checkout, coreVars, concurrentVars, downloaderVars, batchVars>>

\* the resolvers on every host platform and checkout
InitResolver ==
    /\ InitCoreIdle
    /\ InitConcurrentIdle
    /\ reqFile = NoFile
    /\ filteredFile = NoFile
    /\ venvDir = NoDir
    /\ platform \in HostPlatforms
    /\ checkout \in Checkouts
    /\ resolved = NoneResolved
    /\ InitDownloaderIdle
    /\ InitBatchIdle

(***************************************************************************)
(* downloader.py: Downloader._cleanup_single_dir with                      *)
(* _cleanup_error_handler, and Downloader.download_pdf.                    *)
(***************************************************************************)
\* time.sleep arguments considered for retry_delay
RetryDelays == {0, 1}

Exists(dir) == Last(dir) # "gone"

\* the directories the cleanup is called on: one that does not exist, or an
\* existing one whose entries are of any kind
Directories ==
    { NoDirectory } \cup
    { <<a, b, d>> : a \in EntryKinds, b \in EntryKinds,
                    d \in EntryKinds \ {"gone"} }

\* between two attempts whoever holds an entry open may have let go of it
Released(dir) ==
    { d \in [1..Len(dir) -> EntryKinds] :
        \A i \in 1..Len(dir) :
            d[i] = dir[i] \/ (dir[i] = "locked" /\ d[i] = "plain") }

OSErrorAt(i) == [type |-> "PermissionError", path |-> i]

\* _cleanup_error_handler(func, path, exc_info) for the OSError rmtree met at
\* an entry: chmod, then func(path) once more; TRUE when that removed the
\* entry, FALSE when the original exception is raised again
_cleanup_error_handler(kind) == kind = "readonly"

RECURSIVE rmtree(_, _)
\* shutil.rmtree(path, onerror=self._cleanup_error_handler) from entry i on:
\* the directory it leaves and the exception that ended it, if any
rmtree(dir, i) ==
    IF i > Len(dir) THEN [dir |-> dir, raised |-> FALSE, error |-> OSErrorAt(0)]
    ELSE IF dir[i] \in {"gone", "plain"} \/ _cleanup_error_handler(dir[i])
    THEN rmtree([dir EXCEPT ![i] = "gone"], i + 1)
    ELSE [dir |-> dir, raised |-> TRUE, error |-> OSErrorAt(i)]

ReturnValue(v) == [kind |-> "value", value |-> v]

Raises(e) == [kind |-> "raised", error |-> e]

\* a failed attempt is never followed by another one
RetryAfter_never(n, limit) == FALSE

\* if attempt < self.max_retries: sleep and go round the loop again
RetryAfter(n, limit) == n < limit

\* _cleanup_single_dir up to the first pass of the loop: True for a path
\* that does not exist; range(1, max_retries + 1) may be empty, and then
\* the statement after the loop returns False
CleanupEnter ==
    /\ dlOp = "cleanup"
    /\ dlPc = "idle"
    /\ IF ~Exists(dlDir)
       THEN dlPc' = "returned" /\ dlReturn' = ReturnValue("True")
                /\ UNCHANGED attempt
       ELSE IF max_retries < 1
       THEN dlPc' = "returned" /\ dlReturn' = ReturnValue("False")
                /\ UNCHANGED attempt
       ELSE dlPc' = "attempt" /\ attempt' = 1 /\ UNCHANGED dlReturn
    /\ UNCHANGED <<dlOp, max_retries, retry_delay, dlDir, slept, failures>>
    /\ UNCHANGED <<coreVars, concurrentVars, resolverVars, batchVars>>

\* one pass of the loop: rmtree, then return True, or the except branch
CleanupAttempt ==
    /\ dlOp = "cleanup"
    /\ dlPc = "attempt"
    /\ \E now \in Released(dlDir) :
        LET r == rmtree(now, 1)
        IN  /\ dlDir' = r.dir
            /\ IF ~r.raised
               THEN /\ dlPc' = "returned"
                    /\ dlReturn' = ReturnValue("True")
                    /\ UNCHANGED failures
               ELSE /\ failures' = Append(failures, r.error)
                    /\ IF RetryAfter(attempt, max_retries)
                       THEN dlPc' = "sleep" /\ UNCHANGED dlReturn
                       ELSE dlPc' = "raised" /\ dlReturn' = Raises(r.error)
    /\ UNCHANGED <<dlOp, max_retries, retry_delay, attempt, slept>>
    /\ UNCHANGED <<coreVars, concurrentVars, resolverVars, batchVars>>

\* time.sleep(self.retry_delay), then the next value of range
CleanupSleep ==
    /\ dlOp = "cleanup"
    /\ dlPc = "sleep"
    /\ slept' = Append(slept, retry_delay)
    /\ attempt' = attempt + 1
    /\ dlPc' = "attempt"
    /\ UNCHANGED <<dlOp, max_retries, retry_delay, dlDir, failures, dlReturn>>
    /\ UNCHANGED <<coreVars, concurrentVars, resolverVars, batchVars>>

\* what urllib.request.urlopen and the copy to the output file can do
DownloadOutcomes == {"ok", "http_status", "url_error", "write_error"}

\* download_pdf up to the first pass of the loop; with an empty range the
\* function ends without a return statement
DownloadEnter ==
    /\ dlOp = "download_pdf"
    /\ dlPc = "idle"
    /\ IF max_retries < 1
       THEN dlPc' = "returned" /\ dlReturn' = ReturnValue("None")
                /\ UNCHANGED attempt
       ELSE dlPc' = "attempt" /\ attempt' = 1 /\ UNCHANGED dlReturn
    /\ UNCHANGED <<dlOp, max_retries, retry_delay, dlDir, slept, failures>>
    /\ UNCHANGED <<coreVars, concurrentVars, resolverVars, batchVars>>

\* one pass of the loop: the download, then return True, or the except
\* branch up to its sleep or its last print
DownloadAttempt ==
    /\ dlOp = "download_pdf"
    /\ dlPc = "attempt"
    /\ \E outcome \in DownloadOutcomes :
        IF outcome = "ok"
        THEN /\ dlPc' = "returned"
             /\ dlReturn' = ReturnValue("True")
             /\ UNCHANGED failures
        ELSE /\ failures' = Append(failures, [type |-> outcome, path |-> 0])
             /\ IF attempt < max_retries
                THEN dlPc' = "sleep" /\ UNCHANGED dlReturn
                ELSE dlPc' = "returned" /\ dlReturn' = ReturnValue("False")
    /\ UNCHANGED <<dlOp, max_retries, retry_delay, attempt, dlDir, slept>>
    /\ UNCHANGED <<coreVars, concurrentVars, resolverVars, batchVars>>

\* time.sleep(self.retry_delay), then the return False that ends the except
\* block
DownloadSleep ==
    /\ dlOp = "download_pdf"
    /\ dlPc = "sleep"
    /\ slept' = Append(slept, retry_delay)
    /\ dlPc' = "returned"
    /\ dlReturn' = ReturnValue("False")
    /\ UNCHANGED <<dlOp, max_retries, retry_delay, attempt, dlDir, failures>>
    /\ UNCHANGED <<coreVars, concurrentVars, resolverVars, batchVars>>

\* a Downloader of any retry policy, called on any directory or for a PDF
InitDownloader ==
    /\ InitCoreIdle
    /\ InitConcurrentIdle
    /\ InitResolverIdle
    /\ reqFile = NoFile
    /\ filteredFile = NoFile
    /\ venvDir = NoDir
    /\ platform = <<"l", "i", "n", "u", "x">>
    /\ dlOp \in {"cleanup", "download_pdf"}
    /\ dlPc = "idle"
    /\ max_retries \in 0..MaxRetries
    /\ retry_delay \in RetryDelays
    /\ attempt = 0
    /\ dlDir \in (IF dlOp = "cleanup" THEN Directories ELSE {NoDirectory})
    /\ slept = <<>>
    /\ failures = <<>>
    /\ dlReturn = NotCalled
    /\ InitBatchIdle

(***************************************************************************)
(* main.py: run_pipeline as the process the batch runner starts, and       *)
(* batch_eval.py: main with run_main_for_url, run_generated_demo,          *)
(* cleanup_tmp_directory and detect_last_step.  The log is the list of the *)
(* line heads the process printed.  PaperParser, the repository clone, the *)
(* extractor and DemoCreator are called for their outcome only.  A name    *)
(* the module does not bind (repo_target_path, RequirementsExtractor,      *)
(* DemoCreator, PAPER_URLS) and the call download(github_url) without its  *)
(* target_path either raise where they are evaluated or behave as the      *)
(* binding the statement was written for.                                  *)
(***************************************************************************)
\* constants.py: STEP_MARKERS
STEP_MARKERS ==
    <<"--- STEP 1:", "--- STEP 2:", "--- STEP 3:", "--- STEP 4:",
      "--- STEP 5:", "--- STEP 6:", "--- STEP 7:">>

\* main.py:237, the print that follows the comment STEP 7
Line237 == "--- STEP 6:"

\* main.py:193
NoLinkWarning == "[WARNING] No GitHub link found in the paper. Pipeline stops."

\* batch_eval.py:50, the stderr of a run that was killed
TimeoutLine == "TIMEOUT after"

\* marker in log_text
Contains(log_text, line) == \E i \in 1..Len(log_text) : log_text[i] = line

SetMax(S) == CHOOSE m \in S : \A x \in S : x <= m

\* batch_eval.py: detect_last_step
detect_last_step(log_text) ==
    LET found == { step \in DOMAIN STEP_MARKERS :
                     Contains(log_text, STEP_MARKERS[step]) }
    IN  IF found = {} THEN 0 ELSE SetMax(found)

\* the handler of RuntimeError lets the process end normally
ExitStatusOf_runtime_swallowed(exception) ==
    IF exception = "RuntimeError" THEN 0 ELSE 1

\* the except clauses of run_pipeline: each prints and calls sys.exit(1)
ExitStatusOf(exception) ==
    IF exception \in {"FileNotFoundError", "ConnectionError", "ValueError",
                      "RuntimeError"}
    THEN 1
    ELSE 1

\* the exception leaves the try block of run_pipeline
PipeRaise(exception) ==
    /\ pipePc' = "exited"
    /\ returncode' = ExitStatusOf(exception)

PipeGo(next) ==
    /\ pipePc' = next
    /\ UNCHANGED returncode

PipeEnter(step, line) ==
    /\ log' = Append(log, line)
    /\ run' = [run EXCEPT !.entered = step]

batchOnlyVars == <<paperUrls, idx, batchPc, results, outputs>>

otherThanBatch == <<coreVars, concurrentVars, resolverVars, downloaderVars>>

\* tmp/ is made, the marker of step 1 printed and the PDF downloaded
PipelineStep1 ==
    /\ batchPc = "pipeline"
    /\ pipePc = "start"
    /\ PipeEnter(1, STEP_MARKERS[1])
    /\ tmp' = [tmp EXCEPT !.exists = TRUE]
    /\ \E downloaded \in BOOLEAN :
        IF downloaded THEN PipeGo("step2") ELSE PipeRaise("ConnectionError")
    /\ UNCHANGED <<batchOnlyVars, otherThanBatch>>

\* PaperParser(...).extract_github_link(): no link ends the run by return
PipelineStep2 ==
    /\ batchPc = "pipeline"
    /\ pipePc = "step2"
    /\ run' = [run EXCEPT !.entered = 2]
    /\ \E links \in {"found", "none", "raises"} :
        /\ log' = IF links = "none"
                  THEN log \o <<STEP_MARKERS[2], NoLinkWarning>>
                  ELSE Append(log, STEP_MARKERS[2])
        /\ IF links = "found" THEN PipeGo("step3")
           ELSE IF links = "none" THEN pipePc' = "exited" /\ returncode' = 0
           ELSE PipeRaise("Exception")
    /\ UNCHANGED <<tmp, batchOnlyVars, otherThanBatch>>

\* downloader.download(github_url) and the print of repo_target_path
PipelineStep3 ==
    /\ batchPc = "pipeline"
    /\ pipePc = "step3"
    /\ PipeEnter(3, STEP_MARKERS[3])
    /\ \E clone \in {"TypeError", "not_cleaned", "clone_failed", "NameError",
                      "cloned"} :
        /\ tmp' = IF clone \in {"TypeError", "not_cleaned"} THEN tmp
                  ELSE [tmp EXCEPT !.demo = 0]
        /\ IF clone = "cloned" THEN PipeGo("step4")
           ELSE IF clone \in {"not_cleaned", "clone_failed"}
           THEN PipeRaise("RuntimeError")
           ELSE PipeRaise("Exception")
    /\ UNCHANGED <<batchOnlyVars, otherThanBatch>>

\* RequirementsExtractor(...).extract()
PipelineStep4 ==
    /\ batchPc = "pipeline"
    /\ pipePc = "step4"
    /\ PipeEnter(4, STEP_MARKERS[4])
    /\ \E extraction \in {"NameError", "raises", "ok"} :
        IF extraction = "ok" THEN PipeGo("step5") ELSE PipeRaise("Exception")
    /\ UNCHANGED <<tmp, batchOnlyVars, otherThanBatch>>

\* main.py: the commands of create_and_install_venv, in order
MainProvisionCommands ==
    LET python == get_venv_python_executable(VENV_DIR, <<"l", "i", "n", "u", "x">>)
    IN  << CreateCommand,
           <<python, <<"-m">>, <<"pip">>, <<"install">>, <<"pipreqs">>>>,
           <<python, <<"-m">>, <<"pipreqs.pipreqs">>, TMP_DIR \o <<"repo">>,
             <<"--savepath">>, REQUIREMENTS_FILE, <<"--force">>,
             <<"--encoding">>, <<"latin1">>, <<"--ignore=">>>>,
           <<python, <<"-m">>, <<"pip">>, <<"install">>, <<"--no-cache-dir">>,
             <<"-r">>, REQUIREMENTS_FILE,
             <<"--use-deprecated=legacy-resolver">>>> >>

MainProvisionMessages ==
    <<"Virtual environment creation", "Installation of pipreqs",
      "Requirement generation via pipreqs", "Final dependency installation">>

RECURSIVE main_create_and_install_venv(_, _, _)
\* main.py: create_and_install_venv from its i-th command on; it returns
\* before the last command when requirements.txt is missing or empty
main_create_and_install_venv(outcomes, i, manifestEmpty) ==
    IF i > Len(MainProvisionCommands) \/ (i = 4 /\ manifestEmpty)
    THEN [raised |-> FALSE, error |-> NoError]
    ELSE LET r == execute_subprocess(MainProvisionCommands[i],
                                     MainProvisionMessages[i], outcomes[i])
         IN  IF r.raised THEN r
             ELSE main_create_and_install_venv(outcomes, i + 1, manifestEmpty)

\* print of the marker of step 5, then create_and_install_venv
PipelineStep5 ==
    /\ batchPc = "pipeline"
    /\ pipePc = "step5"
    /\ log' = log \o <<STEP_MARKERS[5], STEP_MARKERS[5]>>
    /\ \E outcomes \in [1..4 -> SubprocessOutcomes], manifestEmpty \in BOOLEAN,
          removed \in BOOLEAN :
        LET r == main_create_and_install_venv(outcomes, 1, manifestEmpty)
        IN  /\ run' = [run EXCEPT !.entered = 5, !.provisionFailed = r.raised]
            /\ tmp' = [tmp EXCEPT !.python =
                          Succeeded(outcomes[1]) \/ (tmp.python /\ ~removed)]
            /\ IF r.raised THEN PipeRaise(r.error.kind) ELSE PipeGo("step6")
    /\ UNCHANGED <<batchOnlyVars, otherThanBatch>>

\* DemoCreator(repo_target_path).generate_demo()
PipelineStep6 ==
    /\ batchPc = "pipeline"
    /\ pipePc = "step6"
    /\ log' = Append(log, STEP_MARKERS[6])
    /\ \E demo \in {"NameError", "raises", "none", "path"} :
        /\ run' = [run EXCEPT !.entered = 6, !.demoStarted = TRUE,
                              !.completed = demo \in {"none", "path"}]
        /\ tmp' = IF demo = "path" THEN [tmp EXCEPT !.demo = idx] ELSE tmp
        /\ IF demo \in {"none", "path"} THEN PipeGo("step7")
           ELSE PipeRaise("Exception")
    /\ UNCHANGED <<batchOnlyVars, otherThanBatch>>

\* the statements after the comment STEP 7, then the end of run_pipeline
PipelineStep7 ==
    /\ batchPc = "pipeline"
    /\ pipePc = "step7"
    /\ PipeEnter(7, Line237)
    /\ pipePc' = "exited"
    /\ returncode' = 0
    /\ UNCHANGED <<tmp, batchOnlyVars, otherThanBatch>>

\* run_subprocess: subprocess.run raised TimeoutExpired and killed the child
PipelineTimeout ==
    /\ batchPc = "pipeline"
    /\ pipePc \notin {"exited", "killed"}
    /\ pipePc' = "killed"
    /\ returncode' = -1
    /\ log' = Append(log, TimeoutLine)
    /\ UNCHANGED <<run, tmp, batchOnlyVars, otherThanBatch>>

\* batch_eval.py: cleanup_tmp_directory; a removal that raised is logged and
\* leaves tmp/ with any of what was in it
cleanup_tmp_directory(t) ==
    IF ~t.exists THEN {t}
    ELSE {NoTmp} \cup
         { [exists |-> TRUE, demo |-> d, python |-> p] :
             d \in {0, t.demo}, p \in {FALSE, t.python} }

\* Optional[int]
Some(x) == <<x>>

\* batch_eval.py: run_main_for_url after the child ended
run_main_for_url(index, rc, combined_log) ==
    [index |-> index,
     pipeline_rc |-> rc,
     pipeline_ok |-> (rc = 0),
     pipeline_timeout |-> Contains(combined_log, TimeoutLine),
     last_step |-> detect_last_step(combined_log)]

\* batch_eval.py:480-489, the demo columns of a run that failed
NoDemoResult ==
    [demo_exists |-> FALSE, venv_python_exists |-> FALSE, demo_rc |-> None,
     demo_ok |-> FALSE, demo_timeout |-> FALSE]

\* exit statuses of the demo; -1 stands for a demo that was killed
DemoExitCodes == {0, 1, -1}

\* batch_eval.py: run_generated_demo; the demo is run when both files exist
run_generated_demo(t, rc) ==
    IF t.demo = 0 \/ ~t.python
    THEN [NoDemoResult EXCEPT !.demo_exists = (t.demo # 0),
                              !.venv_python_exists = t.python]
    ELSE [demo_exists |-> TRUE, venv_python_exists |-> TRUE,
          demo_rc |-> Some(rc), demo_ok |-> (rc = 0),
          demo_timeout |-> (rc = -1)]

\* batch_eval.py:507-528, the row of a URL the runner raised on
CrashRow(index) ==
    [index |-> index, pipeline_rc |-> -999, pipeline_ok |-> FALSE,
     pipeline_timeout |-> FALSE, last_step |-> 0] @@ NoDemoResult

\* what the run of a row did, kept with the row
History(r, owner) ==
    [entered |-> r.entered, completed |-> r.completed,
     provisionFailed |-> r.provisionFailed, demoStarted |-> r.demoStarted,
     demo_owner |-> owner]

\* the next value of enumerate(PAPER_URLS, start=1), or the end of the loop
BatchAdvance ==
    IF idx < paperUrls.n
    THEN idx' = idx + 1 /\ batchPc' = "clean_before"
    ELSE batchPc' = "finally" /\ UNCHANGED idx

\* the banner of main(): len(PAPER_URLS) is evaluated before the try
BatchStart ==
    /\ batchPc = "start"
    /\ IF ~paperUrls.bound THEN batchPc' = "crashed" /\ UNCHANGED idx
       ELSE BatchAdvance
    /\ UNCHANGED <<paperUrls, results, outputs, tmp, pipePc, log, returncode,
                   run, otherThanBatch>>

\* cleanup_tmp_directory(), then run_main_for_url starts main.py
BatchCleanBefore ==
    /\ batchPc = "clean_before"
    /\ tmp' \in cleanup_tmp_directory(tmp)
    /\ batchPc' = "pipeline"
    /\ pipePc' = "start"
    /\ log' = <<>>
    /\ returncode' = 0
    /\ run' = NewRun
    /\ UNCHANGED <<paperUrls, idx, results, outputs, otherThanBatch>>

\* the rest of run_main_for_url, run_generated_demo for a run that exited
\* with 0, and results.append(row); an exception on the way appends the
\* row of line 510 instead and the loop goes on
BatchRecord ==
    /\ batchPc = "pipeline"
    /\ pipePc \in {"exited", "killed"}
    /\ \E raised \in BOOLEAN, rc \in DemoExitCodes :
        LET main_res == run_main_for_url(idx, returncode, log)
            demo_res == IF main_res.pipeline_ok
                        THEN run_generated_demo(tmp, rc)
                        ELSE NoDemoResult
            ran == demo_res.demo_rc # None
        IN  /\ (~ran => rc = 0)
            /\ IF raised
               THEN /\ results' = Append(results,
                            CrashRow(idx) @@ History(NewRun, 0))
                    /\ BatchAdvance
               ELSE /\ results' = Append(results,
                            main_res @@ demo_res @@
                            History(run, IF ran THEN tmp.demo ELSE 0))
                    /\ batchPc' = "clean_after"
                    /\ UNCHANGED idx
    /\ UNCHANGED <<paperUrls, outputs, tmp, pipePc, log, returncode, run,
                   otherThanBatch>>

\* cleanup_tmp_directory() after the demo check
BatchCleanAfter ==
    /\ batchPc = "clean_after"
    /\ tmp' \in cleanup_tmp_directory(tmp)
    /\ BatchAdvance
    /\ UNCHANGED <<paperUrls, results, outputs, pipePc, log, returncode, run,
                   otherThanBatch>>

\* KeyboardInterrupt in the loop: no except clause takes it, finally runs
BatchInterrupt ==
    /\ batchPc \in {"clean_before", "pipeline", "clean_after"}
    /\ batchPc' = "finally"
    /\ pipePc' = IF batchPc = "pipeline" /\ pipePc # "exited"
                 THEN "killed" ELSE pipePc
    /\ UNCHANGED <<paperUrls, idx, results, outputs, tmp, log, returncode,
                   run, otherThanBatch>>

\* the finally block: metadata, then the CSV, JSON and summary writers
BatchFinally ==
    /\ batchPc = "finally"
    /\ outputs' = [written |-> TRUE, total_papers |-> paperUrls.n,
                   processed_papers |-> Len(results)]
    /\ batchPc' = "done"
    /\ UNCHANGED <<paperUrls, idx, results, tmp, pipePc, log, returncode,
                   run, otherThanBatch>>

\* python batch_eval.py on a checkout without tmp/, for every number of
\* URLs, and with the name PAPER_URLS as the module leaves it
InitBatch ==
    /\ InitCoreIdle
    /\ InitConcurrentIdle
    /\ InitResolverIdle
    /\ InitDownloaderIdle
    /\ reqFile = NoFile
    /\ filteredFile = NoFile
    /\ venvDir = NoDir
    /\ platform = <<"l", "i", "n", "u", "x">>
    /\ paperUrls \in {[bound |-> FALSE, n |-> 0]}
                        \cup {[bound |-> TRUE, n |-> n] : n \in 0..MaxUrls}
    /\ idx = 0
    /\ batchPc = "start"
    /\ results = <<>>
    /\ outputs = NothingWritten
    /\ tmp = NoTmp
    /\ InitPipelineOff

(***************************************************************************)
(* Specifications.                                                         *)
(***************************************************************************)
NextBatch ==
    \/ BatchStart
    \/ BatchCleanBefore
    \/ PipelineStep1
    \/ PipelineStep2
    \/ PipelineStep3
    \/ PipelineStep4
    \/ PipelineStep5
    \/ PipelineStep6
    \/ PipelineStep7
    \/ PipelineTimeout
    \/ BatchRecord
    \/ BatchCleanAfter
    \/ BatchInterrupt
    \/ BatchFinally

SpecBatch == InitBatch /\ [][NextBatch]_vars

NextDownloader ==
    \/ CleanupEnter
    \/ CleanupAttempt
    \/ CleanupSleep
    \/ DownloadEnter
    \/ DownloadAttempt
    \/ DownloadSleep

\* the method called runs on: nothing suspends it for ever
SpecDownloader ==
    InitDownloader /\ [][NextDownloader]_vars /\ WF_vars(NextDownloader)

NextResolver ==
    \/ ResolveInProvisioner
    \/ ResolveInPipeline
    \/ ResolveInBatch

SpecResolver == InitResolver /\ [][NextResolver]_vars

NextProvision ==
    \/ EnterProvisioner
    \/ CleanupVenv
    \/ CreateVenv
    \/ UpgradeTools
    \/ FilterRequirements
    \/ InstallRequirements

NextClassify == analyze_repo

NextScan ==
    \/ analyze_repo
    \/ NewExtraction
    \/ EditRepository

NextExtract == ExtractModuleName

NextFilter == FilterAlone

NextConcurrent ==
    \E r \in Runs :
        \/ RunEnter(r)
        \/ RunCleanup(r)
        \/ RunCreate(r)
        \/ RunUpgrade(r)
        \/ RunFilter(r)
        \/ RunInstall(r)
        \/ RunEnd(r)

NextRerun ==
    \/ analyze_repo
    \/ NewExtraction
    \/ EnterProvisioner
    \/ CleanupVenv
    \/ CreateVenv
    \/ UpgradeTools
    \/ FilterRequirements
    \/ InstallRequirements

Next ==
    \/ analyze_repo
    \/ EnterProvisioner
    \/ CleanupVenv
    \/ CreateVenv
    \/ UpgradeTools
    \/ FilterRequirements
    \/ InstallRequirements

Spec == Init /\ [][Next]_vars

SpecClassify == InitClassify /\ [][NextClassify]_vars

SpecScan == InitScan /\ [][NextScan]_vars

SpecRerun == InitRerun /\ [][NextRerun]_vars

SpecExtract == InitExtract /\ [][NextExtract]_vars

SpecFilter == InitFilter /\ [][NextFilter]_vars

SpecConcurrent == InitConcurrent /\ [][NextConcurrent]_vars

SpecProvision == InitProvision /\ [][NextProvision]_vars

(***************************************************************************)
(* Properties.                                                             *)
(***************************************************************************)
LastStarted == started[Len(started)]

\* C1: whenever create_and_install_venv runs the environment-creation
\* command no environment directory of a prior run exists at VENV_DIR, and
\* after a second successive call the directory is the one that call created.
C1_PriorEnvironmentDestroyed ==
    /\ (Len(started) >= 1 => ~staleAtCreate)
    /\ (callNo >= 2 /\ pc = "done" =>
            venvDir.exists /\ venvDir.createdBy = callNo)

\* C2: when the removal of the prior environment directory fails the call
\* raises and runs neither creation, tooling upgrade nor installation.
C2_CleanupFailureIsFatal ==
    cleanupFailed =>
        /\ pc = "failed"
        /\ result.status = "raised"
        /\ started = <<>>

StepOrder == <<"create", "upgrade", "install">>

\* C3: the subprocesses of a call run in the order creation, tooling upgrade,
\* installation, each only after the one before it exited zero; a failing
\* step is the last one of the call and the call raises; a call that returns
\* ran creation and upgrade successfully and leaves the environment upgraded
\* or installed.
C3_StepsInOrder ==
    /\ Len(started) <= Len(StepOrder)
    /\ \A i \in 1..Len(started) :
        /\ started[i].step = StepOrder[i]
        /\ i > 1 => Succeeded(started[i - 1].outcome)
    /\ (\E i \in 1..Len(started) : ~Succeeded(started[i].outcome)) =>
            pc = "failed" /\ result.status = "raised"
    /\ pc = "failed" => result.status = "raised" /\ ~Succeeded(LastStarted.outcome)
    /\ pc = "done" =>
        /\ result.status = "returned"
        /\ Len(started) >= 2
        /\ \A i \in 1..Len(started) : Succeeded(started[i].outcome)
        /\ venvDir.exists
        /\ venvDir.stage = IF Len(started) = 3 THEN "installed" ELSE "upgraded"

\* a call that ran all three steps and returned
C3_Witness ==
    pc = "done" /\ Len(started) = 3 /\ venvDir.stage = "installed"

\* C4: within one call each of creation, tooling upgrade and installation is
\* run at most once, and a non-zero exit of any of them reaches the caller
\* as a raised failure caused by that exit.
C4_NoRetryOfSubprocesses ==
    /\ \A i, j \in 1..Len(started) :
            i # j => started[i].step # started[j].step
    /\ \A i \in 1..Len(started) :
        NonZeroExit(started[i].outcome) =>
            /\ pc = "failed"
            /\ result.status = "raised"
            /\ result.error.cause.kind = "CalledProcessError"
            /\ result.error.cause.returncode = started[i].outcome.returncode

\* a call whose tooling upgrade exited non-zero
C4_Witness ==
    /\ pc = "failed"
    /\ Len(started) = 2
    /\ NonZeroExit(started[2].outcome)

\* C5: when requirements.txt is absent or has zero bytes after creation and
\* tooling upgrade succeeded, the call returns without calling
\* filter_requirements and without running the install command.
C5_EmptyManifestSkipsInstall ==
    ( /\ Len(started) >= 2
      /\ Succeeded(started[2].outcome)
      /\ (~reqFile.exists \/ Len(reqFile.lines) = 0) ) =>
        /\ pc = "done"
        /\ result = Returned
        /\ Len(started) = 2
        /\ filterCalls = 0
        /\ requirements_to_install = <<>>

\* a call that returned on a zero-byte requirements.txt
C5_Witness ==
    /\ pc = "done"
    /\ reqFile.exists
    /\ Len(reqFile.lines) = 0
    /\ Len(started) = 2

Sentinels == {"pyproject", "setup"}

\* C6: when a project-configuration file is at the repository root the
\* Manifest Writer returns the sentinel and writes no requirements.txt; a
\* sentinel and a non-empty manifest are never produced together.
C6_ProjectConfigTakesPrecedence ==
    /\ (extPc = "returned" /\ repoConfig \in ProjectConfigFiles) =>
            extReturn \in Sentinels /\ ~manifestWritten
    /\ ~(extReturn \in Sentinels /\ manifestWritten /\ Len(reqFile.lines) > 0)

\* C7: for a repository signalled as using the alternate convention the
\* Provisioner installs the whole project from the repository directory and
\* never installs from requirements.txt or the filtered manifest.
C7_ProjectInstallForAlternateConvention ==
    repoConfig \in ProjectConfigFiles =>
        /\ \A i \in 1..Len(started) : started[i].step # "install"
        /\ pc = "done" =>
                \E i \in 1..Len(started) : started[i].step = "project_install"

CausedBy(res, kind) == res.status = "raised" /\ res.error.cause.kind = kind

\* C8: the failure raised for an executable missing from the search path is
\* of another error kind than the failure raised for a non-zero exit, and
\* the latter carries the command, the exit code and the error stream.
C8_MissingToolIsDistinctError ==
    /\ \A a, b \in {result, prevResult} :
        (CausedBy(a, "FileNotFoundError") /\ CausedBy(b, "CalledProcessError"))
            => a.error.kind # b.error.kind
    /\ CausedBy(result, "CalledProcessError") =>
        /\ result.error.cause.cmd = LastStarted.cmd
        /\ result.error.cause.returncode = LastStarted.outcome.returncode
        /\ result.error.cause.stderr = LastStarted.outcome.stderr

Excluded == STANDARD_LIBRARY \cup DEBUG_BLACKLIST

\* C9: the classifier output and the manifest written from it contain no
\* name of STANDARD_LIBRARY and no name of DEBUG_BLACKLIST; a single module
\* of either set classifies to the empty list.
C9_NoExcludedNames ==
    extPc # "idle" =>
        /\ \A i \in 1..Len(final_dependencies) :
                final_dependencies[i] \notin Excluded
        /\ extPc = "returned" =>
                \A i \in 1..Len(reqFile.lines) :
                    reqFile.lines[i] \notin {CodePoints[m] : m \in Excluded}
        /\ (Cardinality(all_dependencies) = 1 /\ all_dependencies \subseteq Excluded)
                => final_dependencies = <<>>

\* the scan of a repository importing only a blacklisted module
C9_Witness ==
    /\ extPc = "returned"
    /\ all_dependencies = {"setuptools"}
    /\ final_dependencies = <<>>
    /\ reqFile = TextFile(<<>>)

\* the package a surviving module stands for
PackageOf(m) == IF m \in MappedModules THEN MODULE_TO_PACKAGE[m] ELSE m

ExpectedPackages(S) == {PackageOf(m) : m \in S \ Excluded}

\* C10: the classifier output is the duplicate-free list, ascending by code
\* point, of the packages of the scanned modules that are neither
\* standard-library nor blacklisted; {PIL, numpy, os, sys} gives
\* [Pillow, numpy].
C10_SortedPackagesOfExternalModules ==
    extPc # "idle" =>
        /\ Range(final_dependencies) = ExpectedPackages(all_dependencies)
        /\ Len(final_dependencies) = Cardinality(ExpectedPackages(all_dependencies))
        /\ \A i, j \in 1..Len(final_dependencies) :
                i < j => SeqLess(CodePoints[final_dependencies[i]],
                                 CodePoints[final_dependencies[j]])
        /\ all_dependencies = {"PIL", "numpy", "os", "sys"} =>
                final_dependencies = <<"Pillow", "numpy">>

\* the scan of the repository importing PIL, numpy, os and sys
C10_Witness ==
    /\ extPc = "returned"
    /\ all_dependencies = {"PIL", "numpy", "os", "sys"}
    /\ final_dependencies = <<"Pillow", "numpy">>

\* C11: when analyze_repo has returned twice, on the same or on a fresh
\* extractor, and the repository is the same at both scans, the manifest
\* file after the second scan equals the manifest file after the first,
\* also when the scan root holds the manifest and the environment the first
\* run produced.
C11_RescanWritesTheSameManifest ==
    ( /\ extPc = "returned"
      /\ lastScan.status = "returned"
      /\ lastScan.scanned.files = scanned.files ) =>
        reqFile = lastScan.manifest

\* a second scan of the working directory, which by then holds a non-empty
\* manifest and the environment created after the first scan
C11_Witness ==
    /\ extPc = "returned"
    /\ lastScan.status = "returned"
    /\ repo_path = TMP_DIR
    /\ ~lastScan.scanned.venv
    /\ scanned.venv
    /\ Len(lastScan.manifest.lines) > 0
    /\ reqFile = lastScan.manifest

\* the manifest lines of a set of modules, as a set and by their number
IsManifestOf(file, modules) ==
    /\ file.exists
    /\ Range(file.lines) = {CodePoints[p] : p \in ExpectedPackages(modules)}
    /\ Len(file.lines) = Cardinality(ExpectedPackages(modules))

\* C12: after analyze_repo returns, requirements.txt holds exactly the
\* classification of the modules found by this scan of the repository,
\* whatever an earlier manifest file held and whatever an earlier call on
\* the same extractor found.
C12_ManifestFullyRegenerated ==
    extPc = "returned" =>
        IsManifestOf(reqFile, ScanResult(scanned.files, repo_path))

\* a second scan on the same extractor after a file was removed: a line of
\* the earlier manifest is gone
C12_Witness ==
    /\ extPc = "returned"
    /\ lastScan.status = "returned"
    /\ \E i \in 1..Len(lastScan.manifest.lines) :
            lastScan.manifest.lines[i] \notin Range(reqFile.lines)

BlankStr(s) == \A i \in 1..Len(s) : s[i] \in Whitespace

\* a dotted name that does not begin with a dot
AbsoluteName(name) == name # <<>> /\ name[1] \in WordChars

\* the text of a dotted name before its first dot
FirstSegment(name) == TakeWhile(name, (0..127) \ {46})

\* " import "
ImportClause == <<32, 105, 109, 112, 111, 114, 116, 32>>

\* the line is `import <name>`
ImportForm(parts) ==
    /\ BlankStr(parts.prefix)
    /\ parts.keyword = KwImport
    /\ parts.sep # <<>>
    /\ AbsoluteName(parts.name)

\* the line is `from <name> import ...`
FromForm(parts) ==
    /\ BlankStr(parts.prefix)
    /\ parts.keyword = KwFrom
    /\ parts.sep # <<>>
    /\ AbsoluteName(parts.name)
    /\ IsPrefix(ImportClause, parts.suffix)

\* C13: _extract_module_name returns a module name for a line exactly when
\* the line is `import <name>` or `from <name> import ...`, and the name it
\* returns is the first dotted segment of <name>.
C13_ContributesIffImportForm ==
    extractPc = "returned" =>
        /\ (module_name # None) <=> (ImportForm(lineParts) \/ FromForm(lineParts))
        /\ module_name # None => module_name = FirstSegment(lineParts.name)

\* C14: for a line whose imported name begins with a dot
\* _extract_module_name returns no module name, and a file made of that
\* line adds nothing to the scan result.
C14_RelativeImportsContributeNothing ==
    ( /\ extractPc = "returned"
      /\ lineParts.name # <<>>
      /\ lineParts.name[1] = 46 ) =>
        /\ module_name = None
        /\ _analyze_file(SourceFile(<<>>, MainPy, <<LineText(lineParts)>>, "utf8")) = {}

\* the call on the line "from . import x"
C14_Witness ==
    /\ extractPc = "returned"
    /\ LineText(lineParts) = RelativeLine
    /\ module_name = None

PyFiles(files) == { f \in files : EndsWith(f.name, DotPy) }

\* C15: after a scan no file beneath a directory named tmp below the scan
\* root has contributed a module name, and when the scan root itself is
\* named tmp the files at its top level have contributed theirs.
C15_TmpDirectoriesExcluded ==
    extPc \in {"returned", "raised"} =>
        /\ all_dependencies \subseteq
                ModulesOfFiles(PyFiles({ f \in scanned.files :
                                            ExtractorTmpName \notin Range(f.dir) }))
        /\ Last(repo_path) = ExtractorTmpName =>
                ModulesOfFiles(PyFiles({ f \in scanned.files : f.dir = <<>> }))
                    \subseteq all_dependencies

\* C16: after a scan no file beneath a directory named .venv_repro or .git,
\* at any depth, has contributed a module name.
C16_DenylistedDirectoriesExcluded ==
    extPc \in {"returned", "raised"} =>
        all_dependencies \subseteq
            ModulesOfFiles(PyFiles({ f \in scanned.files :
                                        /\ VENV_DIR_NAME \notin Range(f.dir)
                                        /\ ".git" \notin Range(f.dir) }))

\* C17: no read or decode failure of a file leaves analyze_repo, and when
\* analyze_repo returns the manifest is the classification of the imports
\* of the files that can be read.
C17_ReadFailureNeverAborts ==
    /\ extPc # "aborted"
    /\ extPc = "returned" =>
            IsManifestOf(reqFile,
                         ScanResult({ f \in scanned.files : ~ReadFails(f) }, repo_path))

\* a scan that met a file neither UTF-8 nor the Latin-1 fallback could read
\* and wrote the imports of another file
C17_Witness ==
    /\ extPc = "returned"
    /\ \E f \in scanned.files : f.read = "latin1_error"
    /\ Len(reqFile.lines) > 0

\* the call opened the filtered file for writing
FilteredFileWritten ==
    inputBefore.exists /\ filterIO.readOk /\ filterIO.writeOutcome # "open_fails"

\* C18: after filter_requirements returns, whatever the outcome, the file
\* at the path it was given has the content it had at entry, and a file the
\* call wrote has another name than the input.
C18_FilterNeverModifiesInput ==
    filterPc = "returned" =>
        /\ Disk(filterArg, reqFile, filteredFile) = inputBefore
        /\ FilteredFileWritten => FilteredPath(filterArg) # filterArg

\* an error of the call: the input is missing, reading it or writing the
\* filtered file raised
FilterError ==
    ~inputBefore.exists \/ ~filterIO.readOk \/ filterIO.writeOutcome # "ok"

\* C19: filter_requirements returns the path it was given whenever the
\* input is missing or reading or writing raised; it returns the path of
\* the sibling filtered file only when that file was written to the end; no
\* outcome makes it raise.
C19_FallbackToOriginalPath ==
    /\ filterPc \in {"idle", "returned"}
    /\ filterPc = "returned" =>
        /\ FilterError => filterReturn = filterArg
        /\ ~FilterError => filterReturn = FilteredPath(filterArg)
        /\ filterReturn # filterArg =>
            /\ filterReturn = FilteredPath(filterArg)
            /\ filterIO.writeOutcome = "ok"
            /\ filteredFile.exists

\* a call whose write raised after the filtered file was opened
C19_Witness ==
    /\ filterPc = "returned"
    /\ filterArg = REQUIREMENTS_FILE
    /\ Len(inputBefore.lines) > 0
    /\ filterIO.readOk
    /\ filterIO.writeOutcome = "write_fails"
    /\ filterReturn = REQUIREMENTS_FILE

\* the characters a version specifier begins with: = > < ~ !
SpecifierStart == {61, 62, 60, 126, 33}

\* the text of a requirement line before any version specifier
BareName(line) == strip(TakeWhile(strip(line), (0..127) \ SpecifierStart))

\* "ast", "enum34"
InstallDenylist == {CodePoints["ast"], CodePoints["enum34"]}

Survives(line) ==
    /\ ~BlankStr(line)
    /\ strip(line)[1] # 35
    /\ BareName(line) \notin InstallDenylist

RECURSIVE Survivors(_)
Survivors(lines) ==
    IF lines = <<>> THEN <<>>
    ELSE (IF Survives(Head(lines)) THEN <<Head(lines)>> ELSE <<>>)
         \o Survivors(Tail(lines))

\* C20: the filtered manifest a successful call writes consists of the
\* input lines, unchanged and in order, that are not blank, are not
\* comments and whose name before any version specifier is neither ast nor
\* enum34.
C20_FilteredLinesAreTheSurvivors ==
    (filterPc = "returned" /\ ~FilterError /\ filterArg = REQUIREMENTS_FILE) =>
        filteredFile = TextFile(Survivors(inputBefore.lines))

\* C21: a run deletes the environment directory while another run that
\* created it is upgrading it, installing into it or has returned it only
\* when the runs are not serialized; serialized runs are never active
\* together.
C21_OnlyUnserializedRunsClobber ==
    /\ clobbers # {} => ~serialized
    /\ serialized =>
            \A r, q \in Runs :
                (r # q /\ runPc[r] \in ActivePcs) => runPc[q] \notin ActivePcs

\* two interleaved runs: one deleted the directory the other had created and
\* was installing into
C21_Witness ==
    /\ ~serialized
    /\ \E c \in clobbers : c.at = "install" /\ runPc[c.of] = "install"
    /\ ~venvDir.exists

\* the install command was started in the current call
InstallStarted == \E i \in 1..Len(started) : started[i].step = "install"

\* C26 as stated: the install command is started only on a file that holds
\* at least one requirement line; a non-empty manifest the filter removes
\* every line of skips the installation.
C26_InstallOnlyWithRequirements ==
    InstallStarted =>
        Len(Disk(requirements_to_install, reqFile, filteredFile).lines) > 0

\* C26: once creation and tooling upgrade succeeded, the install command is
\* skipped exactly when requirements.txt is absent or empty; for a non-empty
\* requirements.txt filter_requirements is called once and the install
\* command is started on the path it returned, whatever the filter kept.
C26_InstallRunsIffManifestNonEmpty ==
    ( /\ Len(started) >= 2
      /\ Succeeded(started[2].outcome)
      /\ pc \in {"done", "failed"} ) =>
        /\ InstallStarted <=> (reqFile.exists /\ Len(reqFile.lines) > 0)
        /\ InstallStarted =>
            /\ filterCalls = 1
            /\ LastStarted.cmd =
                    InstallCommand(get_venv_python_executable(VENV_DIR, platform),
                                   requirements_to_install)

\* a call that installed from the filtered copy of a manifest whose only
\* line was `ast`: the copy holds no line
C26_Witness ==
    /\ pc = "done"
    /\ InstallStarted
    /\ reqFile = TextFile(<<CodePoints["ast"]>>)
    /\ requirements_to_install = FilteredPath(REQUIREMENTS_FILE)
    /\ filteredFile = TextFile(<<>>)

\* sys.platform values of Windows-family hosts
WindowsPlatforms == { <<"w", "i", "n", "3", "2">> }

\* C24: for every host platform and environment root the three resolvers
\* return the same path, <env>/Scripts/python.exe on a Windows-family host
\* and <env>/bin/python on every other host.
C24_ResolversAgree ==
    \A a \in DOMAIN resolved :
        resolved[a] # None =>
            /\ \A b \in DOMAIN resolved :
                    resolved[b] # None => resolved[a] = resolved[b]
            /\ resolved[a] =
                    checkout \o <<"tmp", ".venv_repro">> \o
                        (IF platform \in WindowsPlatforms
                         THEN <<"Scripts", "python.exe">>
                         ELSE <<"bin", "python">>)

\* the three resolvers were called on a Windows host
C24_Witness ==
    /\ platform \in WindowsPlatforms
    /\ \A a \in DOMAIN resolved : resolved[a] # None
    /\ resolved.batch_eval = resolved.venv_create

\* the attempts of the call so far kept to the retry policy
CleanupWithinPolicy ==
    /\ attempt <= max_retries \/ attempt = 0
    /\ Len(failures) <= attempt
    /\ \A i \in 1..Len(slept) : slept[i] = retry_delay
    /\ dlPc = "attempt" => Len(slept) = attempt - 1 /\ Len(failures) = attempt - 1
    /\ dlPc = "sleep" => Len(slept) = attempt - 1 /\ Len(failures) = attempt
    /\ dlReturn = ReturnValue("True") =>
            /\ ~Exists(dlDir)
            /\ Len(slept) = Len(failures)
            /\ attempt = 0 \/ Len(failures) = attempt - 1
    /\ dlPc = "raised" =>
            /\ attempt = max_retries
            /\ Len(failures) = max_retries
            /\ Len(slept) = max_retries - 1
            /\ dlReturn = Raises(Last(failures))
            /\ Exists(dlDir)
    /\ dlReturn = ReturnValue("False") => max_retries < 1 /\ attempt = 0

\* C22: _cleanup_single_dir ends after at most max_retries calls of rmtree:
\* it returns True at once for a missing directory and as soon as an
\* attempt succeeds, sleeps retry_delay after every failed attempt but the
\* last, raises the exception of the last attempt when max_retries attempts
\* failed, and returns True only when the directory is gone.
C22_CleanupTerminatesWithinRetries ==
    /\ [](dlOp = "cleanup" => CleanupWithinPolicy)
    /\ (dlOp = "cleanup") ~> (dlPc \in {"returned", "raised"})

\* a cleanup that failed once on a locked entry, slept, and succeeded on the
\* second attempt
C22_Witness ==
    /\ dlOp = "cleanup"
    /\ dlPc = "returned"
    /\ dlReturn = ReturnValue("True")
    /\ attempt = 2
    /\ slept = <<retry_delay>>
    /\ Len(failures) = 1

\* C25 as stated: download_pdf returns False only after max_retries
\* attempts have all failed.
C25_FalseOnlyAfterAllRetries ==
    (dlOp = "download_pdf" /\ dlReturn = ReturnValue("False")) =>
        /\ attempt = max_retries
        /\ Len(failures) = max_retries

Rows == 1..Len(results)

\* C23: after create_and_install_venv raised, the run has not started demo
\* generation, the process has exited with a non-zero status, and the batch
\* runner has not executed a demo for that URL.
C23_ProvisionFailureAborts ==
    /\ run.provisionFailed =>
            /\ ~run.demoStarted
            /\ pipePc = "exited"
            /\ returncode # 0
    /\ \A i \in Rows :
            results[i].provisionFailed =>
                /\ ~results[i].demoStarted
                /\ results[i].pipeline_rc # 0
                /\ ~results[i].pipeline_ok
                /\ results[i].demo_rc = None

\* a recorded run whose provisioning failed at step 5
C23_Witness ==
    \E i \in Rows :
        /\ results[i].provisionFailed
        /\ results[i].pipeline_rc = 1
        /\ results[i].last_step = 5

C30_OneRowPerUrlOutputsWritten ==
    /\ \A i \in Rows : results[i].index = i
    /\ batchPc \in {"clean_before", "pipeline"} => Len(results) = idx - 1
    /\ batchPc = "clean_after" => Len(results) = idx
    /\ \A i \in Rows : results[i].demo_rc # None => results[i].pipeline_rc = 0
    /\ batchPc \in {"done", "crashed"} =>
            /\ outputs.written
            /\ outputs.processed_papers = Len(results)

====
